---- MODULE Spec2Model ----
(***************************************************************************)
(* The BAENG interpreter (src/baeng.py): the sample buffer, the variable   *)
(* stores, the statement walker and the per-sample kernel loop, as a state *)
(* machine over the interchange form of a script.                          *)
(***************************************************************************)
EXTENDS Integers, Sequences, FiniteSets, TLC

VARIABLES
    script,           \* Baeng.script: [IR, FUNS, CODE], fixed for the run
    global_vars,      \* Baeng.global_vars: dict name -> value
    local_variables,  \* Baeng.local_variables: list of dict objects (as heap ids)
    heap,             \* the dict objects local_variables refers to: id -> dict
    data,             \* ImpulseResponse.data: the float32 array
    SAMPLEPOS,        \* Baeng.SAMPLEPOS
    stack,            \* the interpreter's own call stack (activations)
    status,           \* "init", "running", "done", or the name of the exception raised
    exported,         \* the files written so far: sequence of [path, data]
    lastCall,         \* observation: the kernel loop that completed last
    parser            \* baengParser.translate: [lines, i, frames, status, result,
                      \* error], and the observation owner

vars == <<script, global_vars, local_variables, heap, data, SAMPLEPOS,
          stack, status, exported, lastCall, parser>>

(***************************************************************************)
(* Bounds of the model.                                                    *)
(***************************************************************************)
MaxRate == 8        \* sample rates fs range over 0..MaxRate
MaxDuration == 2    \* integer durations range over 0..MaxDuration
MaxIndex == 5       \* literal sample indices range over -MaxIndex..MaxIndex
MaxCount == 3       \* the counting loops count up to 0..MaxCount
MaxIterations == 6  \* the body executions of a While are counted up to MaxIterations

(***************************************************************************)
(* Values.  A Python int is [k = "int", n, d = 1].  A Python float is      *)
(* [k = "float", n, d]: the double nearest to n/d (n/d in lowest terms).   *)
(* A numpy float32 is [k = "float32", n, d]: the single-precision number   *)
(* nearest to the double nearest to n/d.  With the small n and d of this   *)
(* model a value whose d is a power of two is represented exactly in both  *)
(* precisions; every other n/d is rounded, and differently by the two.     *)
(***************************************************************************)
RECURSIVE GCD(_, _)
GCD(a, b) == IF b = 0 THEN a ELSE GCD(b, a % b)

Abs(x) == IF x < 0 THEN -x ELSE x

RECURSIVE IsPow2(_)
IsPow2(d) == d = 1 \/ (d > 1 /\ d % 2 = 0 /\ IsPow2(d \div 2))

Rat(k, n, d) ==
    LET s == IF d < 0 THEN -1 ELSE 1
        g == GCD(Abs(n), Abs(d))
    IN  [k |-> k, n |-> (s * n) \div g, d |-> (s * d) \div g]

IntV(n) == [k |-> "int", n |-> n, d |-> 1]
FloatV(n, d) == Rat("float", n, d)
BoolV(b) == [k |-> "bool", n |-> IF b THEN 1 ELSE 0, d |-> 1]
Handle == [k |-> "ImpulseResponse", n |-> 0, d |-> 1]
NoneV == [k |-> "None", n |-> 0, d |-> 1]
Err(name) == [k |-> name, n |-> 0, d |-> 1]

ErrorKinds == {"NameError", "IndexError", "TypeError", "ValueError", "KeyError",
               "ZeroDivisionError", "NotImplementedError", "wave.Error",
               "Unmodelled"}
IsErr(v) == v.k \in ErrorKinds
IsNum(v) == v.k \in {"int", "float", "float32", "bool"}
IsExact(v) == IsNum(v) /\ IsPow2(v.d)

\* numpy's conversion of a scalar stored into a float32 array (src/baeng.py:34, 67)
ToFloat32(v) ==
    IF IsNum(v) THEN [k |-> "float32", n |-> v.n, d |-> v.d]
    ELSE IF v.k = "None" THEN Err("TypeError")
    ELSE Err("ValueError")

\* bool(value), as the if/while conditions take it
Truthy(v) == IF IsNum(v) THEN v.n # 0 ELSE v.k # "None"

\* int(x) of a number: truncation towards zero (src/baeng.py:34)
IntOf(v) == IF v.n >= 0 THEN v.n \div v.d ELSE -((-v.n) \div v.d)

ArithKind(a, b) ==
    IF "float32" \in {a.k, b.k} THEN "float32"
    ELSE IF "float" \in {a.k, b.k} THEN "float"
    ELSE "int"

\* Python's true division of two exact numbers
DivideFloor(a, b) ==
    IF b.n = 0 THEN Err("ZeroDivisionError")
    ELSE IF a.k = "int" /\ b.k = "int" THEN IntV((a.n * b.d) \div (a.d * b.n))
    ELSE Rat("float", a.n * b.d, a.d * b.n)
Divide(a, b) ==
    IF b.n = 0 THEN Err("ZeroDivisionError")
    ELSE Rat("float", a.n * b.d, a.d * b.n)

\* Python's binary operators on the values above.  Arithmetic on a rounded
\* operand is outside the model ("Unmodelled"), never given a made-up result.
BinOp(op, a, b) ==
    IF IsErr(a) THEN a
    ELSE IF IsErr(b) THEN b
    ELSE IF ~(IsNum(a) /\ IsNum(b)) THEN Err("TypeError")
    ELSE IF ~(IsExact(a) /\ IsExact(b)) THEN Err("Unmodelled")
    ELSE IF op = "+" THEN Rat(ArithKind(a, b), a.n * b.d + b.n * a.d, a.d * b.d)
    ELSE IF op = "-" THEN Rat(ArithKind(a, b), a.n * b.d - b.n * a.d, a.d * b.d)
    ELSE IF op = "*" THEN Rat(ArithKind(a, b), a.n * b.n, a.d * b.d)
    ELSE IF op = "/" THEN
        IF "float32" \in {a.k, b.k} THEN Err("Unmodelled")
        ELSE Divide(a, b)
    ELSE IF op = "<" THEN BoolV(a.n * b.d < b.n * a.d)
    ELSE IF op = "==" THEN BoolV(a.n * b.d = b.n * a.d)
    ELSE Err("Unmodelled")

(***************************************************************************)
(* The sample buffer: numpy indexing of a one-dimensional array.           *)
(***************************************************************************)
\* the position (1-based) numpy resolves an index to, 0 when it raises IndexError
ResolveOneBased(N, idx) ==
    IF idx.k # "int" THEN 0
    ELSE IF 1 <= idx.n /\ idx.n <= N THEN idx.n
    ELSE IF -N <= idx.n /\ idx.n < 0 THEN N + idx.n + 1
    ELSE 0
Resolve(N, idx) ==
    IF idx.k # "int" THEN 0
    ELSE IF 0 <= idx.n /\ idx.n < N THEN idx.n + 1
    ELSE IF -N <= idx.n /\ idx.n < 0 THEN N + idx.n + 1
    ELSE 0

\* ImpulseResponse.__getitem__
GetItem(d, idx) ==
    IF IsErr(idx) THEN idx
    ELSE IF idx.k = "bool" THEN Err("Unmodelled")
    ELSE IF Resolve(Len(d), idx) = 0 THEN Err("IndexError")
    ELSE d[Resolve(Len(d), idx)]

\* ImpulseResponse.__setitem__: [err, data]
SetItemGrows(d, idx, v) ==
    IF IsErr(idx) THEN [err |-> idx, data |-> d]
    ELSE IF IsErr(v) THEN [err |-> v, data |-> d]
    ELSE IF idx.k = "bool" THEN [err |-> Err("Unmodelled"), data |-> d]
    ELSE IF IsErr(ToFloat32(v)) THEN [err |-> ToFloat32(v), data |-> d]
    ELSE IF idx.k = "int" /\ idx.n = Len(d)
        THEN [err |-> NoneV, data |-> Append(d, ToFloat32(v))]
    ELSE IF Resolve(Len(d), idx) = 0 THEN [err |-> Err("IndexError"), data |-> d]
    ELSE [err |-> NoneV, data |-> [d EXCEPT ![Resolve(Len(d), idx)] = ToFloat32(v)]]
SetItem(d, idx, v) ==
    IF IsErr(idx) THEN [err |-> idx, data |-> d]
    ELSE IF IsErr(v) THEN [err |-> v, data |-> d]
    ELSE IF idx.k = "bool" THEN [err |-> Err("Unmodelled"), data |-> d]
    ELSE IF Resolve(Len(d), idx) = 0 THEN [err |-> Err("IndexError"), data |-> d]
    ELSE IF IsErr(ToFloat32(v)) THEN [err |-> ToFloat32(v), data |-> d]
    ELSE [err |-> NoneV, data |-> [d EXCEPT ![Resolve(Len(d), idx)] = ToFloat32(v)]]

(***************************************************************************)
(* Objects of the interchange form.  type(obj) is int or float: Num;       *)
(* str: Str, holding the Python expression as a syntax tree; list: Lst.    *)
(***************************************************************************)
Num(v) == [t |-> "num", v |-> v]
Str(e) == [t |-> "str", e |-> e]
Lst(head, args) == [t |-> "list", head |-> head, args |-> args]
NoneObj == [t |-> "none"]

Const(v) == [e |-> "const", v |-> v]
Name(id) == [e |-> "name", id |-> id]
Bin(op, l, r) == [e |-> "binop", op |-> op, l |-> l, r |-> r]
Sub(obj, idx) == [e |-> "subscript", l |-> obj, r |-> idx]

\* dict.update: b's bindings win
Update(a, b) ==
    [x \in (DOMAIN a) \cup (DOMAIN b) |-> IF x \in DOMAIN b THEN b[x] ELSE a[x]]

EmptyDict == [x \in {} |-> NoneV]

\* the environment _eval_string assembles; st = [lv, gv, pos, data]
AllVariablesGlobalLast(st) ==
    Update(Update(st.gv, st.lv),
           [x \in {"SAMPLEPOS", "IR"} |->
               IF x = "SAMPLEPOS" THEN IntV(st.pos) ELSE Handle])

AllVariablesNoBuiltinOverride(st) ==
    Update([x \in {"SAMPLEPOS", "IR"} |->
               IF x = "SAMPLEPOS" THEN IntV(st.pos) ELSE Handle],
           Update(st.lv, st.gv))

AllVariables(st) ==
    Update(Update(st.lv, st.gv),
           [x \in {"SAMPLEPOS", "IR"} |->
               IF x = "SAMPLEPOS" THEN IntV(st.pos) ELSE Handle])

\* eval(string, {}, all_variables) on the expression forms of the model
RECURSIVE EvalExpr(_, _, _)
EvalExpr(e, env, d) ==
    IF e.e = "const" THEN e.v
    ELSE IF e.e = "name" THEN
        IF e.id \in DOMAIN env THEN env[e.id] ELSE Err("NameError")
    ELSE IF e.e = "binop" THEN
        BinOp(e.op, EvalExpr(e.l, env, d), EvalExpr(e.r, env, d))
    ELSE IF e.e = "subscript" THEN
        LET o == EvalExpr(e.l, env, d)
            i == EvalExpr(e.r, env, d)
        IN  IF IsErr(o) THEN o
            ELSE IF IsErr(i) THEN i
            ELSE IF o.k = "ImpulseResponse" THEN GetItem(d, i)
            ELSE Err("TypeError")
    ELSE Err("Unmodelled")

\* Baeng._eval_string
EvalString(e, st) == EvalExpr(e, AllVariables(st), st.data)

\* Baeng._fetch_parameter, with _read_sample_op for the list it may hold
RECURSIVE FetchParameter(_, _)
FetchParameter(obj, st) ==
    IF obj.t = "list" THEN
        IF obj.head = "readSample" THEN
            GetItem(st.data, FetchParameter(obj.args[1], st))
        ELSE IF obj.head \in {"if", "while", "define", "setSample", "export", "print"}
            THEN Err("Unmodelled")
        ELSE Err("KeyError")
    ELSE IF obj.t = "str" THEN EvalString(obj.e, st)
    ELSE IF obj.t = "num" THEN obj.v
    ELSE Err("TypeError")

(***************************************************************************)
(* Statements (code lines): [op, args] is the list [op, *args].            *)
(***************************************************************************)
IfSt(cond, body) == [op |-> "if", args |-> <<cond, body>>]
WhileSt(cond, body) == [op |-> "while", args |-> <<cond, body>>]
DefineSt(name, value) == [op |-> "define", args |-> <<name, value>>]
SetSampleSt(key, value) == [op |-> "setSample", args |-> <<key, value>>]
ReadSampleSt(key) == [op |-> "readSample", args |-> <<key>>]
ExportSt(path) == [op |-> "export", args |-> <<path>>]
PrintSt(text) == [op |-> "print", args |-> <<text>>]
CallSt(fname, params) == [op |-> fname, args |-> <<params>>]

\* the keys of Baeng.operators
Operators == {"if", "while", "define", "setSample", "readSample", "export", "print"}

(***************************************************************************)
(* Activations of the interpreter's own (Python) call stack.               *)
(*   block: one _interpret_codeblock; i is the next code line              *)
(*   while: one _while_op, between two evaluations of its condition; pos   *)
(*          records the body executions it has started                     *)
(*   call : the loop over the sample positions of one user function call;  *)
(*          params is the dict object new_parameters, pos the next value   *)
(*          range() yields, limit its end.  line, st0 and seen record the  *)
(*          call statement, the state it was reached in and the cursor at  *)
(*          the start of each body execution so far.                       *)
(***************************************************************************)
NoState == [lv |-> EmptyDict, gv |-> EmptyDict, pos |-> 0, data |-> <<>>]

Block(code, scope) ==
    [kind |-> "block", code |-> code, i |-> 1, scope |-> scope, cond |-> NoneObj,
     fname |-> "", params |-> 0, pos |-> 0, limit |-> 0,
     line |-> <<>>, st0 |-> NoState, seen |-> <<>>]

WhileAct(cond, code, scope) ==
    [kind |-> "while", code |-> code, i |-> 0, scope |-> scope, cond |-> cond,
     fname |-> "", params |-> 0, pos |-> 0, limit |-> 0,
     line |-> <<>>, st0 |-> NoState, seen |-> <<>>]

CallAct(fname, id, limit, line, st0) ==
    [kind |-> "call", code |-> <<>>, i |-> 0, scope |-> "", cond |-> NoneObj,
     fname |-> fname, params |-> id, pos |-> 0, limit |-> limit,
     line |-> line, st0 |-> st0, seen |-> <<>>]

Top == stack[Len(stack)]
Pop(s) == SubSeq(s, 1, Len(s) - 1)
Push(s, a) == Append(s, a)
ReplaceTop(s, a) == [s EXCEPT ![Len(s)] = a]

\* local_variables[-1], the dict object and its contents
TopId == local_variables[Len(local_variables)]
TopFrame == heap[TopId]

\* what an evaluation in the current state reads
Cur == [lv |-> TopFrame, gv |-> global_vars, pos |-> SAMPLEPOS, data |-> data]

\* the interpreter is between two code lines of a block, the next one being `line`
AtLine ==
    /\ status = "running"
    /\ stack # <<>>
    /\ Top.kind = "block"
    /\ Top.i <= Len(Top.code)
CurLine == Top.code[Top.i]
Advance(a) == [a EXCEPT !.i = a.i + 1]

Raise(v) ==
    /\ status' = v.k
    /\ UNCHANGED <<parser, script, global_vars, local_variables, heap, data, SAMPLEPOS,
                   stack, exported, lastCall>>

\* _if_op, _while_op: "when inside function, no deeper scope layer"
DowngradeNever(scope) == scope
Downgrade(scope) == IF scope = "local" THEN "stay_local" ELSE scope

\* a fresh dict object
NewId == CHOOSE i \in 1..(Cardinality(DOMAIN heap) + 1) :
            /\ i \notin DOMAIN heap
            /\ \A j \in 1..(i - 1) : j \in DOMAIN heap

\* _interpret_codeblock on entry: "add new local scope to local_variables list"
EnterBlock(parameters, scope) ==
    IF scope = "local" THEN Append(local_variables, parameters) ELSE local_variables

\* the heap once the body of an if or a while is entered with parameters={}
WithEmptyDict(scope) ==
    IF scope = "local" THEN (NewId :> EmptyDict) @@ heap ELSE heap

(***************************************************************************)
(* The operators.                                                          *)
(***************************************************************************)
Bind(d, name, v) == Update(d, name :> v)

\* _define_op's store, per scope: [gv, hp], the new global store and heap
DefineWriteDropsStayLocal(scope, name, v) ==
    IF scope = "local"
        THEN [gv |-> global_vars, hp |-> [heap EXCEPT ![TopId] = Bind(@, name, v)]]
    ELSE IF scope = "global"
        THEN [gv |-> Bind(global_vars, name, v), hp |-> heap]
    ELSE [gv |-> global_vars, hp |-> heap]

DefineWriteAlwaysGlobal(scope, name, v) ==
    [gv |-> Bind(global_vars, name, v), hp |-> heap]

DefineWriteBottomFrame(scope, name, v) ==
    IF scope = "global"
        THEN [gv |-> Bind(global_vars, name, v), hp |-> heap]
        ELSE [gv |-> global_vars,
              hp |-> [heap EXCEPT ![IF scope = "local" THEN TopId ELSE local_variables[1]] =
                                      Bind(@, name, v)]]

DefineWrite(scope, name, v) ==
    IF scope = "local"
        THEN [gv |-> global_vars, hp |-> [heap EXCEPT ![TopId] = Bind(@, name, v)]]
    ELSE IF scope = "stay_local" THEN
        IF local_variables # <<>>
            THEN [gv |-> global_vars, hp |-> [heap EXCEPT ![TopId] = Bind(@, name, v)]]
            ELSE [gv |-> Bind(global_vars, name, v), hp |-> heap]
    ELSE IF scope = "global"
        THEN [gv |-> Bind(global_vars, name, v), hp |-> heap]
    ELSE [gv |-> global_vars, hp |-> heap]

\* an exception raised while an operator runs: "except KeyError" takes a KeyError
\* for "no such operator", and the line's head is no user function
RaisedByOperator(v) == IF v.k = "KeyError" THEN Err("NotImplementedError") ELSE v

\* Baeng.run, up to the first code line
Run ==
    /\ status = "init"
    /\ status' = "running"
    /\ stack' = <<Block(script.CODE, "global")>>
    /\ local_variables' = EnterBlock(NewId, "global")
    /\ heap' = WithEmptyDict("global")
    /\ UNCHANGED <<parser, script, global_vars, data, SAMPLEPOS, exported, lastCall>>

\* _if_op
IfOp ==
    /\ AtLine
    /\ CurLine.op = "if"
    /\ LET scope == Downgrade(Top.scope)
           c == FetchParameter(CurLine.args[1], Cur)
       IN  IF IsErr(c) THEN Raise(RaisedByOperator(c))
           ELSE IF Truthy(c)
           THEN /\ stack' = Push(ReplaceTop(stack, Advance(Top)),
                                 Block(CurLine.args[2], scope))
                /\ local_variables' = EnterBlock(NewId, scope)
                /\ heap' = WithEmptyDict(scope)
                /\ UNCHANGED <<parser, script, global_vars, data, SAMPLEPOS, status, exported,
                               lastCall>>
           ELSE /\ stack' = ReplaceTop(stack, Advance(Top))
                /\ UNCHANGED <<parser, script, global_vars, local_variables, heap, data,
                               SAMPLEPOS, status, exported, lastCall>>

\* _while_op, up to the first evaluation of the condition
WhileOp ==
    /\ AtLine
    /\ CurLine.op = "while"
    /\ stack' = Push(ReplaceTop(stack, Advance(Top)),
                     WhileAct(CurLine.args[1], CurLine.args[2], Downgrade(Top.scope)))
    /\ UNCHANGED <<parser, script, global_vars, local_variables, heap, data, SAMPLEPOS,
                   status, exported, lastCall>>

\* while self._fetch_parameter(condition, scope=scope)
ContinuesFirstTime(c, act) == Truthy(c) \/ act.pos = 0
Continues(c, act) == Truthy(c)

\* a While that starts its body once more; pos of the activation counts the
\* executions of the body it has started, up to MaxIterations
Started(act) == [act EXCEPT !.pos = IF @ < MaxIterations THEN @ + 1 ELSE @]

\* _while_op: one evaluation of the condition
WhileTest ==
    /\ status = "running"
    /\ stack # <<>>
    /\ Top.kind = "while"
    /\ LET c == FetchParameter(Top.cond, Cur)
       IN  IF IsErr(c) THEN Raise(RaisedByOperator(c))
           ELSE IF Continues(c, Top)
           THEN /\ stack' = Push(ReplaceTop(stack, Started(Top)),
                                 Block(Top.code, Top.scope))
                /\ local_variables' = EnterBlock(NewId, Top.scope)
                /\ heap' = WithEmptyDict(Top.scope)
                /\ UNCHANGED <<parser, script, global_vars, data, SAMPLEPOS, status, exported,
                               lastCall>>
           ELSE /\ stack' = Pop(stack)
                /\ UNCHANGED <<parser, script, global_vars, local_variables, heap, data,
                               SAMPLEPOS, status, exported, lastCall>>

\* _define_op
DefineOp ==
    /\ AtLine
    /\ CurLine.op = "define"
    /\ LET v == FetchParameter(CurLine.args[2], Cur)
           w == DefineWrite(Top.scope, CurLine.args[1], v)
       IN  IF IsErr(v) THEN Raise(RaisedByOperator(v))
           ELSE /\ global_vars' = w.gv
                /\ heap' = w.hp
                /\ stack' = ReplaceTop(stack, Advance(Top))
                /\ UNCHANGED <<parser, script, local_variables, data, SAMPLEPOS, status,
                               exported, lastCall>>

\* _set_sample_op
SetSampleOp ==
    /\ AtLine
    /\ CurLine.op = "setSample"
    /\ LET index == FetchParameter(CurLine.args[1], Cur)
           value == FetchParameter(CurLine.args[2], Cur)
           r == SetItem(data, index, value)
       IN  IF IsErr(r.err) THEN Raise(RaisedByOperator(r.err))
           ELSE /\ data' = r.data
                /\ stack' = ReplaceTop(stack, Advance(Top))
                /\ UNCHANGED <<parser, script, global_vars, local_variables, heap, SAMPLEPOS,
                               status, exported, lastCall>>

\* _read_sample_op as a statement: the value is dropped
ReadSampleOp ==
    /\ AtLine
    /\ CurLine.op = "readSample"
    /\ LET value == GetItem(data, FetchParameter(CurLine.args[1], Cur))
       IN  IF IsErr(value) THEN Raise(RaisedByOperator(value))
           ELSE /\ stack' = ReplaceTop(stack, Advance(Top))
                /\ UNCHANGED <<parser, script, global_vars, local_variables, heap, data,
                               SAMPLEPOS, status, exported, lastCall>>

\* ImpulseResponse.export_wav_16bit: [err, files].  The wave module refuses a
\* frame rate that is not positive (wave.Error; the file it opened stays empty);
\* otherwise the file at path holds the samples the buffer has now.
ExportWav16bit(path) ==
    IF script.IR[1].n <= 0
        THEN [err |-> Err("wave.Error"), files |-> exported]
        ELSE [err |-> NoneV, files |-> Append(exported, [path |-> path, data |-> data])]

\* _export_op
ExportOpEndsRun ==
    /\ AtLine
    /\ CurLine.op = "export"
    /\ exported' = ExportWav16bit(CurLine.args[1]).files
    /\ status' = "done"
    /\ UNCHANGED <<parser, script, global_vars, local_variables, heap, data, SAMPLEPOS,
                   stack, lastCall>>
ExportOp ==
    /\ AtLine
    /\ CurLine.op = "export"
    /\ LET r == ExportWav16bit(CurLine.args[1])
       IN  IF IsErr(r.err) THEN Raise(RaisedByOperator(r.err))
           ELSE /\ exported' = r.files
                /\ stack' = ReplaceTop(stack, Advance(Top))
                /\ UNCHANGED <<parser, script, global_vars, local_variables, heap, data,
                               SAMPLEPOS, status, lastCall>>

\* _print_op
PrintOp ==
    /\ AtLine
    /\ CurLine.op = "print"
    /\ stack' = ReplaceTop(stack, Advance(Top))
    /\ UNCHANGED <<parser, script, global_vars, local_variables, heap, data, SAMPLEPOS,
                   status, exported, lastCall>>

(***************************************************************************)
(* User function calls: the kernel loop.                                   *)
(***************************************************************************)
Min(S) == CHOOSE x \in S : \A y \in S : x <= y
Max(S) == CHOOSE x \in S : \A y \in S : x >= y

\* dict(zip(names, values))
ZipPadded(names, values) ==
    [x \in {names[j] : j \in 1..Len(names)} |->
        LET j == Max({q \in 1..Len(names) : names[q] = x})
        IN  IF j <= Len(values) THEN values[j] ELSE NoneV]
Zip(names, values) ==
    LET m == IF Len(names) < Len(values) THEN Len(names) ELSE Len(values)
    IN  [x \in {names[j] : j \in 1..m} |->
            values[Max({j \in 1..m : names[j] = x})]]

\* the values _fetch_parameter gives the parameters of a call line, in state st
ParameterValues(line, st) ==
    [j \in 1..Len(line.args[1]) |-> FetchParameter(line.args[1][j], st)]

\* a block of an if or a while is being interpreted: the line of an operator,
\* inside the try of "except KeyError", encloses the current one
InOperatorLine ==
    \E j \in 2..Len(stack) : stack[j].kind = "block" /\ stack[j].scope # "local"

\* an exception raised while the parameters of a call are evaluated
RaisedInHandler(v) ==
    IF v.k = "KeyError" /\ InOperatorLine THEN Err("NotImplementedError") ELSE v

\* range(self.IR.fs * self.IR.duration): its end, or the TypeError of a float
RangeStopShort(x) == IF x.k = "int" THEN IntV(x.n - 1) ELSE Err("TypeError")
RangeStop(x) == IF x.k = "int" THEN x ELSE Err("TypeError")

\* the dict passed as parameters= at a sample position: the one object
\* new_parameters, as it is by now
NewParametersFresh(c) ==
    Zip(script.FUNS[c.fname].PARAMS, ParameterValues(c.line, c.st0))
NewParametersReevaluated(c) ==
    Zip(script.FUNS[c.fname].PARAMS,
        ParameterValues(c.line, [Cur EXCEPT !.pos = c.pos]))
NewParameters(c) == heap[c.params]

\* a code line whose head is no operator but a user function, up to the loop
CallOp ==
    /\ AtLine
    /\ CurLine.op \notin Operators
    /\ CurLine.op \in DOMAIN script.FUNS
    /\ LET parameter_names == script.FUNS[CurLine.op].PARAMS
           parameter_values == ParameterValues(CurLine, Cur)
           bad == {j \in 1..Len(parameter_values) : IsErr(parameter_values[j])}
           new_parameters == Zip(parameter_names, parameter_values)
           stop == RangeStop(BinOp("*", script.IR[1], script.IR[2]))
           id == NewId
       IN  IF bad # {} THEN Raise(RaisedInHandler(parameter_values[Min(bad)]))
           ELSE IF IsErr(stop) THEN Raise(stop)
           ELSE /\ heap' = (id :> new_parameters) @@ heap
                /\ stack' = Push(ReplaceTop(stack, Advance(Top)),
                                 CallAct(CurLine.op, id, stop.n, CurLine, Cur))
                /\ UNCHANGED <<parser, script, global_vars, local_variables, data, SAMPLEPOS,
                               status, exported, lastCall>>

\* a code line whose head is neither
UnknownOpSkips ==
    /\ AtLine
    /\ CurLine.op \notin Operators
    /\ CurLine.op \notin DOMAIN script.FUNS
    /\ stack' = ReplaceTop(stack, Advance(Top))
    /\ UNCHANGED <<parser, script, global_vars, local_variables, heap, data, SAMPLEPOS,
                   status, exported, lastCall>>
UnknownOp ==
    /\ AtLine
    /\ CurLine.op \notin Operators
    /\ CurLine.op \notin DOMAIN script.FUNS
    /\ Raise(Err("NotImplementedError"))

\* one round of "for sample_position in range(...)", up to the first line of the body
KernelIterate ==
    /\ status = "running"
    /\ stack # <<>>
    /\ Top.kind = "call"
    /\ Top.pos < Top.limit
    /\ SAMPLEPOS' = Top.pos
    /\ heap' = [heap EXCEPT ![Top.params] = NewParameters(Top)]
    /\ local_variables' = EnterBlock(Top.params, "local")
    /\ stack' = Push(ReplaceTop(stack, [Top EXCEPT !.pos = @ + 1,
                                                   !.seen = Append(@, SAMPLEPOS')]),
                     Block(script.FUNS[Top.fname].CODE, "local"))
    /\ UNCHANGED <<parser, script, global_vars, data, status, exported, lastCall>>

\* the loop is exhausted: the call line is done
KernelDone ==
    /\ status = "running"
    /\ stack # <<>>
    /\ Top.kind = "call"
    /\ Top.pos >= Top.limit
    /\ stack' = Pop(stack)
    /\ heap' = [x \in (DOMAIN heap) \ {Top.params} |-> heap[x]]
    /\ lastCall' = [fname |-> Top.fname, seen |-> Top.seen, completed |-> TRUE]
    /\ UNCHANGED <<parser, script, global_vars, local_variables, data, SAMPLEPOS, status,
                   exported>>

\* _interpret_codeblock after its last code line
BlockEnd ==
    /\ status = "running"
    /\ stack # <<>>
    /\ Top.kind = "block"
    /\ Top.i > Len(Top.code)
    /\ local_variables' = IF Top.scope = "local" THEN Pop(local_variables)
                                                 ELSE local_variables
    /\ stack' = Pop(stack)
    /\ UNCHANGED <<parser, script, global_vars, heap, data, SAMPLEPOS, status, exported,
                   lastCall>>

\* Baeng.run after the main sequence: "export.wav at the end of code"
EndOfRunExportAlways ==
    /\ \/ status = "running" /\ stack = <<>>
       \/ status \in ErrorKinds \ {"wave.Error"}
    /\ LET r == ExportWav16bit(script.IR[3])
       IN  /\ exported' = r.files
           /\ status' = IF IsErr(r.err) THEN r.err.k ELSE "done"
    /\ UNCHANGED <<parser, script, global_vars, local_variables, heap, data, SAMPLEPOS,
                   stack, lastCall>>
EndOfRunExport ==
    /\ status = "running"
    /\ stack = <<>>
    /\ LET r == ExportWav16bit(script.IR[3])
       IN  /\ exported' = r.files
           /\ status' = IF IsErr(r.err) THEN r.err.k ELSE "done"
    /\ UNCHANGED <<parser, script, global_vars, local_variables, heap, data, SAMPLEPOS,
                   stack, lastCall>>

(***************************************************************************)
(* The scripts and headers the runs are drawn from.                        *)
(***************************************************************************)
V(x) == Str(Name(x))
I(n) == Num(IntV(n))
Op2(op, l, r) == Str(Bin(op, l, r))
Fun(params, code) == [PARAMS |-> params, CODE |-> code]
NoFuns == [x \in {} |-> Fun(<<>>, <<>>)]
Prog(funs, code) == [FUNS |-> funs, CODE |-> code]

\* f(): setSample(SAMPLEPOS, SAMPLEPOS / R); main: f()
KernelProg(R) ==
    Prog("f" :> Fun(<<>>, <<SetSampleSt(V("SAMPLEPOS"),
                                        Op2("/", Name("SAMPLEPOS"), Const(IntV(R))))>>),
         <<CallSt("f", <<>>)>>)

\* g(a): setSample(SAMPLEPOS, a); main: [f()] g(arg)
ArgProg(arg, pre) ==
    Prog(("f" :> Fun(<<>>, <<SetSampleSt(V("SAMPLEPOS"), I(1))>>)) @@
         ("g" :> Fun(<<"a">>, <<SetSampleSt(V("SAMPLEPOS"), V("a"))>>)),
         (IF pre THEN <<CallSt("f", <<>>)>> ELSE <<>>) \o <<CallSt("g", <<arg>>)>>)

ArgObjs == {V("SAMPLEPOS"), I(3), Lst("readSample", <<I(0)>>),
            Op2("+", Name("SAMPLEPOS"), Const(IntV(1)))}

\* h(a): if SAMPLEPOS < 1: t = 5; a = a + 1
\*       setSample(SAMPLEPOS, a)
\* f0(): t = SAMPLEPOS
FrameProg(zero) ==
    Prog(("h" :> Fun(<<"a">>,
             <<IfSt(Op2("<", Name("SAMPLEPOS"), Const(IntV(1))),
                    <<DefineSt("t", I(5)),
                      DefineSt("a", Op2("+", Name("a"), Const(IntV(1))))>>),
               SetSampleSt(V("SAMPLEPOS"), V("a"))>>)) @@
         ("f0" :> Fun(<<>>, <<DefineSt("t", V("SAMPLEPOS"))>>)),
         IF zero THEN <<CallSt("f0", <<>>)>> ELSE <<CallSt("h", <<I(1)>>)>>)

\* k(): i = 0
\*      while i < 2: y = i + 5; i = i + 1
\*      setSample(SAMPLEPOS, y)
\* main: [y = 9] k(); z = 1
ScopeProg(pre) ==
    Prog("k" :> Fun(<<>>,
             <<DefineSt("i", I(0)),
               WhileSt(Op2("<", Name("i"), Const(IntV(2))),
                       <<DefineSt("y", Op2("+", Name("i"), Const(IntV(5)))),
                         DefineSt("i", Op2("+", Name("i"), Const(IntV(1))))>>),
               SetSampleSt(V("SAMPLEPOS"), V("y"))>>),
         (IF pre THEN <<DefineSt("y", I(9))>> ELSE <<>>) \o
         <<CallSt("k", <<>>), DefineSt("z", I(1))>>)

\* outer(): q = 1; inner(q); setSample(SAMPLEPOS, q)
\* inner(b): if b: q = 2
\*           w = b
NestedProg ==
    Prog(("outer" :> Fun(<<>>,
             <<DefineSt("q", I(1)), CallSt("inner", <<V("q")>>),
               SetSampleSt(V("SAMPLEPOS"), V("q"))>>)) @@
         ("inner" :> Fun(<<"b">>,
             <<IfSt(V("b"), <<DefineSt("q", I(2))>>), DefineSt("w", V("b"))>>)),
         <<CallSt("outer", <<>>)>>)

Values == {IntV(1), IntV(-1), FloatV(1, 2), FloatV(1, 3), FloatV(1, 10)}

\* fill(): setSample(SAMPLEPOS, SAMPLEPOS + 1)
\* main: [fill()] setSample(i, v); r = readSample(i)
IndexProg(i, v, pre) ==
    Prog("fill" :> Fun(<<>>, <<SetSampleSt(V("SAMPLEPOS"),
                                  Op2("+", Name("SAMPLEPOS"), Const(IntV(1))))>>),
         (IF pre THEN <<CallSt("fill", <<>>)>> ELSE <<>>) \o
         <<SetSampleSt(I(i), Num(v)), DefineSt("r", Lst("readSample", <<I(i)>>))>>)

\* main: readSample(i)
ReadProg(i) == Prog(NoFuns, <<ReadSampleSt(I(i))>>)

\* main: a = 1; SAMPLEPOS = 7; c = SAMPLEPOS; g2(2, 4)
\* g2(a, b): IR = 3; SAMPLEPOS = 9; u = a; w = IR; setSample(SAMPLEPOS, a)
EnvProg ==
    Prog("g2" :> Fun(<<"a", "b">>,
             <<DefineSt("IR", I(3)), DefineSt("SAMPLEPOS", I(9)), DefineSt("u", V("a")),
               DefineSt("w", V("IR")), SetSampleSt(V("SAMPLEPOS"), V("a"))>>),
         <<DefineSt("a", I(1)), DefineSt("SAMPLEPOS", I(7)), DefineSt("c", V("SAMPLEPOS")),
           CallSt("g2", <<I(2), I(4)>>)>>)

\* main: x = 1
\*       if x: y = 2; n = 0
\*             while n < 2: n = n + 1
\*       d()
\* d():  p = 1
\*       if p: q = 2
\*             if p: r = 3
DefineProg ==
    Prog("d" :> Fun(<<>>,
             <<DefineSt("p", I(1)),
               IfSt(V("p"), <<DefineSt("q", I(2)),
                              IfSt(V("p"), <<DefineSt("r", I(3))>>)>>)>>),
         <<DefineSt("x", I(1)),
           IfSt(V("x"), <<DefineSt("y", I(2)), DefineSt("n", I(0)),
                          WhileSt(Op2("<", Name("n"), Const(IntV(2))),
                                  <<DefineSt("n", Op2("+", Name("n"), Const(IntV(1))))>>)>>),
           CallSt("d", <<>>)>>)

\* main: print("hello"); export("a.wav"); readSample(0); nope()
MiscProg ==
    Prog(NoFuns, <<PrintSt("hello"), ExportSt("a.wav"), ReadSampleSt(I(0)),
                   CallSt("nope", <<>>)>>)

\* u(): setSample(SAMPLEPOS, 1)
\*      if SAMPLEPOS == 1: nope(); t = 1
\* main: u(); x = 1
UnknownProg ==
    Prog("u" :> Fun(<<>>,
             <<SetSampleSt(V("SAMPLEPOS"), I(1)),
               IfSt(Op2("==", Name("SAMPLEPOS"), Const(IntV(1))),
                    <<CallSt("nope", <<>>), DefineSt("t", I(1))>>)>>),
         <<CallSt("u", <<>>), DefineSt("x", I(1))>>)

\* ex(): print("p"); export("c.wav")
\* main: setSample(0, 1); export("a.wav"); export("a.wav"); ex(); x = 1
ExportProg ==
    Prog("ex" :> Fun(<<>>, <<PrintSt("p"), ExportSt("c.wav")>>),
         <<SetSampleSt(I(0), I(1)), ExportSt("a.wav"), ExportSt("a.wav"),
           CallSt("ex", <<>>), DefineSt("x", I(1))>>)

\* main: i = 0
\*       while i < k: i = i + 1
\*       z = 1
CountProg(k) ==
    Prog(NoFuns,
         <<DefineSt("i", I(0)),
           WhileSt(Op2("<", Name("i"), Const(IntV(k))),
                   <<DefineSt("i", Op2("+", Name("i"), Const(IntV(1))))>>),
           DefineSt("z", I(1))>>)

\* c(): i = 0
\*      while i < 2: i = i + 1
\*      setSample(SAMPLEPOS, i)
\* main: [i = 0] c()
LocalCountProg(pre) ==
    Prog("c" :> Fun(<<>>,
             <<DefineSt("i", I(0)),
               WhileSt(Op2("<", Name("i"), Const(IntV(2))),
                       <<DefineSt("i", Op2("+", Name("i"), Const(IntV(1))))>>),
               SetSampleSt(V("SAMPLEPOS"), V("i"))>>),
         (IF pre THEN <<DefineSt("i", I(0))>> ELSE <<>>) \o <<CallSt("c", <<>>)>>)

\* m(a, b): t = 1
\*          setSample(SAMPLEPOS, a)
\* main: m(args)
ArityProg(args) ==
    Prog("m" :> Fun(<<"a", "b">>,
             <<DefineSt("t", I(1)), SetSampleSt(V("SAMPLEPOS"), V("a"))>>),
         <<CallSt("m", args)>>)
ArityArgs == {<<>>, <<I(1)>>, <<I(1), I(2)>>, <<I(1), I(2), I(3)>>,
              <<I(1), I(2), V("nope")>>}

Programs ==
    {KernelProg(R) : R \in 1..MaxRate}
    \cup {ArityProg(args) : args \in ArityArgs}
    \cup {LocalCountProg(pre) : pre \in BOOLEAN}
    \cup {CountProg(k) : k \in 0..MaxCount}
    \cup {ArgProg(a, pre) : a \in ArgObjs, pre \in BOOLEAN}
    \cup {FrameProg(z) : z \in BOOLEAN}
    \cup {ScopeProg(pre) : pre \in BOOLEAN}
    \cup {IndexProg(i, v, pre) : i \in (-MaxIndex)..MaxIndex, v \in Values, pre \in BOOLEAN}
    \cup {ReadProg(i) : i \in (-MaxIndex)..MaxIndex}
    \cup {NestedProg, EnvProg, DefineProg, MiscProg, UnknownProg, ExportProg}

\* [fs, duration, path]: fs an int, duration an int or a float
Durations == {IntV(n) : n \in 0..MaxDuration} \cup {FloatV(1, 2), FloatV(1, 1)}
Headers == {<<IntV(fs), dur, "out.wav">> : fs \in 0..MaxRate, dur \in Durations}

\* np.zeros(int(fs * duration), dtype=np.float32)
Zeros(fs, duration) ==
    [j \in 1..IntOf(BinOp("*", fs, duration)) |-> ToFloat32(IntV(0))]


(***************************************************************************)
(* The parser (src/baengParser.py).  Text is a sequence of tokens, each    *)
(* standing for the characters it is written with: a word (a maximal run   *)
(* of letters, digits and underscores) or any other single character; one  *)
(* space is the token " ".  A source is a sequence of lines.               *)
(***************************************************************************)
\* the words of the sources below; Names start with a letter or an underscore
Names == {"set", "IR", "func", "if", "while", "print", "export", "setSample",
          "readSample", "SAMPLEPOS", "f", "g", "x", "y", "a", "b", "hello", "out"}
DigitSeq == <<"0", "1", "2", "3", "4", "5", "6", "7", "8", "9">>
Digits == {DigitSeq[j] : j \in 1..Len(DigitSeq)}
DigitValue(w) == (CHOOSE j \in 1..Len(DigitSeq) : DigitSeq[j] = w) - 1

Drop(s, n) == SubSeq(s, n + 1, Len(s))
Take(s, n) == SubSeq(s, 1, n)

\* str.lstrip(" "), str.strip() where the only whitespace is the space
RECURSIVE LStrip(_)
LStrip(s) == IF s # <<>> /\ s[1] = " " THEN LStrip(Drop(s, 1)) ELSE s
RECURSIVE RStrip(_)
RStrip(s) == IF s # <<>> /\ s[Len(s)] = " " THEN RStrip(Take(s, Len(s) - 1)) ELSE s
Strip(s) == RStrip(LStrip(s))

StartsWith(s, prefix) == Len(s) >= Len(prefix) /\ Take(s, Len(prefix)) = prefix
EndsWith(s, c) == s # <<>> /\ s[Len(s)] = c
Contains(s, c) == \E j \in 1..Len(s) : s[j] = c
Find(s, c) == Min({j \in 1..Len(s) : s[j] = c})
FindLast(s, c) == Max({j \in 1..Len(s) : s[j] = c})

\* try_number: int(s) or float(s) of a literal, NoneV when they raise
Unsigned(s) == IF s # <<>> /\ s[1] \in {"-", "+"} THEN Drop(s, 1) ELSE s
Sign(s) == IF s # <<>> /\ s[1] = "-" THEN -1 ELSE 1
try_number(s) ==
    LET u == Unsigned(s)
    IN  IF Contains(s, ".")
        THEN IF Len(u) = 3 /\ u[1] \in Digits /\ u[2] = "." /\ u[3] \in Digits
                 THEN FloatV(Sign(s) * (10 * DigitValue(u[1]) + DigitValue(u[3])), 10)
             ELSE IF Len(u) = 2 /\ u[1] \in Digits /\ u[2] = "."
                 THEN FloatV(Sign(s) * DigitValue(u[1]), 1)
             ELSE IF Len(u) = 2 /\ u[1] = "." /\ u[2] \in Digits
                 THEN FloatV(Sign(s) * DigitValue(u[2]), 10)
             ELSE NoneV
        ELSE IF Len(u) = 1 /\ u[1] \in Digits
                 THEN IntV(Sign(s) * DigitValue(u[1]))
                 ELSE NoneV

\* is_quoted, strip_quotes
is_quoted(s0) ==
    LET s == Strip(s0)
    IN  \/ StartsWith(s, <<"\"">>) /\ EndsWith(s, "\"")
        \/ StartsWith(s, <<"'">>) /\ EndsWith(s, "'")
strip_quotes(s0) ==
    LET s == Strip(s0)
    IN  IF is_quoted(s) THEN SubSeq(s, 2, Len(s) - 1) ELSE s

\* split_args_top_level: the loop over the characters, from position j on, with
\* the arguments found so far, the current one and the parenthesis level
RECURSIVE SplitLoop(_, _, _, _, _)
SplitLoop(s, j, args, cur, level) ==
    IF j > Len(s)
        THEN IF Strip(cur) # <<>> THEN Append(args, Strip(cur)) ELSE args
    ELSE IF s[j] = "(" THEN SplitLoop(s, j + 1, args, Append(cur, s[j]), level + 1)
    ELSE IF s[j] = ")" THEN SplitLoop(s, j + 1, args, Append(cur, s[j]), level - 1)
    ELSE IF s[j] = "," /\ level = 0
        THEN SplitLoop(s, j + 1, Append(args, Strip(cur)), <<>>, level)
    ELSE SplitLoop(s, j + 1, args, Append(cur, s[j]), level)
split_args_top_level(s) == SplitLoop(s, 1, <<>>, <<>>, 0)

\* _simple_call_re: [ok, fname, args]; args is group 2, the characters between
\* the first "(" and the closing ")", none of which may be a ")"
NoMatch == [ok |-> FALSE, fname |-> "", args |-> <<>>]
simple_call_re(s0) ==
    LET s == Strip(s0)
        rest == LStrip(Drop(s, 1))
        inner == SubSeq(rest, 2, Len(rest) - 1)
    IN  IF /\ s # <<>>
           /\ s[1] \in Names
           /\ Len(rest) >= 2
           /\ rest[1] = "("
           /\ rest[Len(rest)] = ")"
           /\ ~Contains(inner, ")")
        THEN [ok |-> TRUE, fname |-> s[1], args |-> inner]
        ELSE NoMatch

\* a list that is not of the form [operator, argument, ...]
Arr(items) == [t |-> "array", items |-> items]

\* parse_atom
parse_atom(expr) ==
    LET e == Strip(expr)
        num == try_number(e)
        m == simple_call_re(e)
        arg_text == Strip(m.args)
        parts == split_args_top_level(arg_text)
    IN  IF num # NoneV THEN Num(num)
        ELSE IF is_quoted(e) THEN Str(strip_quotes(e))
        ELSE IF m.ok /\ m.fname \in {"readSample"} THEN
            IF arg_text = <<>> THEN Lst(m.fname, <<Arr(<<>>)>>)
            ELSE IF Len(parts) = 1 THEN Lst(m.fname, <<Str(parts[1])>>)
            ELSE Lst(m.fname, <<Arr([j \in 1..Len(parts) |-> Str(parts[j])])>>)
        ELSE Str(e)

\* parse_arg_list
parse_arg_list(s) ==
    LET parts == split_args_top_level(s)
        kept == SelectSeq(parts, LAMBDA q : q # <<>>)
    IN  [j \in 1..Len(kept) |-> parse_atom(kept[j])]

(***************************************************************************)
(* parse_block, one step per round of its loop and per return, and         *)
(* translate.  parser.frames are the activations of parse_block: the       *)
(* indent it was called with, the code it has collected and the header     *)
(* line its caller will complete with that code.  parser.i is the index    *)
(* of the next line (from 1).                                              *)
(***************************************************************************)
NoError == [kind |-> "", msg |-> "", raw |-> <<>>]
ParseError(kind, msg, l) == [kind |-> kind, msg |-> msg, raw |-> l]

Header(kind, fname, params, cond) ==
    [kind |-> kind, fname |-> fname, params |-> params, cond |-> cond]
TopLevel == Header("top", "", <<>>, <<>>)
Frame(indent, hdr, at) == [indent |-> indent, code |-> <<>>, hdr |-> hdr, at |-> at]

\* translate(source_text) at the call of parse_block(lines, 0, 0); owner[j] is
\* the header line of the block line j was taken into (0: the top level), -1
\* while it is not taken
StartParse(lines) ==
    [lines |-> lines, i |-> 1, frames |-> <<Frame(0, TopLevel, 0)>>,
     status |-> "parsing", result |-> [x \in {} |-> <<>>], error |-> NoError,
     owner |-> [j \in 1..Len(lines) |-> -1]]
NoParse == [StartParse(<<>>) EXCEPT !.status = "idle"]

\* the tuples ("__IR__", parsed) and ("__FUNC__", fname, params, body)
IRItem(parsed) == [op |-> "__IR__", args |-> <<parsed>>, tuple |-> TRUE]
FuncItem(fname, params, body) ==
    [op |-> "__FUNC__", args |-> <<fname, params, body>>, tuple |-> TRUE]
IsTuple(item) == "tuple" \in DOMAIN item

Parsing == parser.status = "parsing"
AtEnd == parser.i > Len(parser.lines)
raw == parser.lines[parser.i]
IsBlank(l) == Strip(l) = <<>>
Indent(l) == Len(l) - Len(LStrip(l))
CurFrame == parser.frames[Len(parser.frames)]
Dedent == ~AtEnd /\ ~IsBlank(raw) /\ Indent(raw) < CurFrame.indent
line == Strip(raw)

\* the line form a stripped line is taken for: the first test that passes
LineForm(l) ==
    IF StartsWith(l, <<"set", " ", "IR", ":">>) THEN "IR"
    ELSE IF StartsWith(l, <<"func", " ">>) THEN "func"
    ELSE IF StartsWith(l, <<"if", " ">>) /\ EndsWith(l, ":") THEN "if"
    ELSE IF StartsWith(l, <<"while", " ">>) /\ EndsWith(l, ":") THEN "while"
    ELSE IF StartsWith(l, <<"print", "(">>) /\ EndsWith(l, ")") THEN "print"
    ELSE IF StartsWith(l, <<"export", "(">>) /\ EndsWith(l, ")") THEN "export"
    ELSE IF StartsWith(l, <<"setSample", "(">>) /\ EndsWith(l, ")") THEN "setSample"
    ELSE IF /\ Contains(l, "=")
            /\ ~StartsWith(l, <<"if", " ">>)
            /\ ~StartsWith(l, <<"while", " ">>) THEN "assignment"
    ELSE IF simple_call_re(l).ok THEN "call"
    ELSE "unrecognized"

AtForm(form) ==
    /\ Parsing
    /\ ~AtEnd
    /\ ~IsBlank(raw)
    /\ Indent(raw) >= CurFrame.indent
    /\ LineForm(line) = form

\* code.append(item); i += 1
AppendItem(item) ==
    parser' = [parser EXCEPT !.frames[Len(parser.frames)].code = Append(@, item),
                             !.owner[parser.i] = CurFrame.at,
                             !.i = @ + 1]
\* body, new_i = parse_block(lines, i + 1, indent + 4)
EnterBodyAtHeaderIndent(hdr) ==
    parser' = [parser EXCEPT
        !.frames = Append(@, Frame(Indent(raw) + 4, hdr, parser.i)),
        !.owner[parser.i] = CurFrame.at,
        !.i = @ + 1]
EnterBody(hdr) ==
    parser' = [parser EXCEPT
        !.frames = Append(@, Frame(CurFrame.indent + 4, hdr, parser.i)),
        !.owner[parser.i] = CurFrame.at,
        !.i = @ + 1]
Abort(kind, msg, l) ==
    parser' = [parser EXCEPT !.status = kind, !.error = ParseError(kind, msg, l)]

Interpreter == <<script, global_vars, local_variables, heap, data, SAMPLEPOS,
                 stack, status, exported, lastCall>>

BlankLine ==
    /\ Parsing
    /\ ~AtEnd
    /\ IsBlank(raw)
    /\ parser' = [parser EXCEPT !.i = @ + 1]
    /\ UNCHANGED Interpreter

\* re.match(r"set IR:\s*\((.*)\)\s*$", line): group 1, or NoMatch
IRLineMatch(l) ==
    LET rest == LStrip(Drop(l, 4))
    IN  IF Len(rest) >= 2 /\ rest[1] = "(" /\ rest[Len(rest)] = ")"
        THEN [ok |-> TRUE, fname |-> "", args |-> SubSeq(rest, 2, Len(rest) - 1)]
        ELSE NoMatch

IRPart(part) ==
    IF is_quoted(part) THEN Str(strip_quotes(part))
    ELSE IF try_number(part) # NoneV THEN Num(try_number(part))
    ELSE Str(strip_quotes(part))

IRLine ==
    /\ AtForm("IR")
    /\ LET m == IRLineMatch(line)
           parts == split_args_top_level(m.args)
       IN  IF ~m.ok THEN Abort("ValueError", "Malformed IR line", raw)
           ELSE AppendItem(IRItem([j \in 1..Len(parts) |-> IRPart(parts[j])]))
    /\ UNCHANGED Interpreter

\* str.split(",")
RECURSIVE SplitAtCommas(_)
SplitAtCommas(s) ==
    IF Contains(s, ",")
        THEN <<Take(s, Find(s, ",") - 1)>> \o SplitAtCommas(Drop(s, Find(s, ",")))
        ELSE <<s>>

\* re.match(r"func\s+([A-Za-z_]\w*)\s*\(\s*([A-Za-z0-9_,\s]*)\)\s*:\s*$", line)
FuncLineMatch(l) ==
    LET named == LStrip(Drop(l, 1))
        paren == LStrip(Drop(named, 1))
        inside == Drop(paren, 1)
        close == Find(inside, ")")
    IN  IF /\ named # <<>>
           /\ named[1] \in Names
           /\ paren # <<>>
           /\ paren[1] = "("
           /\ Contains(inside, ")")
           /\ \A j \in 1..(close - 1) : inside[j] \in Names \cup Digits \cup {",", " "}
           /\ Strip(Drop(inside, close)) = <<":">>
        THEN [ok |-> TRUE, fname |-> named[1], args |-> Take(inside, close - 1)]
        ELSE NoMatch

FuncLine ==
    /\ AtForm("func")
    /\ LET m == FuncLineMatch(line)
           ps == SplitAtCommas(m.args)
           stripped == [j \in 1..Len(ps) |-> Strip(ps[j])]
           params == SelectSeq(stripped, LAMBDA q : q # <<>>)
       IN  IF ~m.ok THEN Abort("ValueError", "Malformed func def", raw)
           ELSE EnterBody(Header("func", m.fname, params, <<>>))
    /\ UNCHANGED Interpreter

\* cond = line[len("if "):-1].strip()
IfLine ==
    /\ AtForm("if")
    /\ EnterBody(Header("if", "", <<>>, Strip(SubSeq(line, 3, Len(line) - 1))))
    /\ UNCHANGED Interpreter

WhileLine ==
    /\ AtForm("while")
    /\ EnterBody(Header("while", "", <<>>, Strip(SubSeq(line, 3, Len(line) - 1))))
    /\ UNCHANGED Interpreter

\* the characters between the opening parenthesis and the last one
Inner(l) == Strip(SubSeq(l, 3, Len(l) - 1))

PrintLine ==
    /\ AtForm("print")
    /\ AppendItem(PrintSt(Str(Inner(line))))
    /\ UNCHANGED Interpreter

ExportLine ==
    /\ AtForm("export")
    /\ AppendItem(ExportSt(Str(IF is_quoted(Inner(line)) THEN strip_quotes(Inner(line))
                                                         ELSE Inner(line))))
    /\ UNCHANGED Interpreter

SetSampleLine ==
    /\ AtForm("setSample")
    /\ LET args == parse_arg_list(Inner(line))
       IN  IF args = <<>> THEN Abort("IndexError", "list index out of range", <<>>)
           ELSE AppendItem(SetSampleSt(args[1],
                                       IF Len(args) > 1 THEN args[2] ELSE NoneObj))
    /\ UNCHANGED Interpreter

\* left, right = line.split("=", 1)
AssignmentLine ==
    /\ AtForm("assignment")
    /\ LET eq == Find(line, "=")
           var == Strip(Take(line, eq - 1))
           rhs == Strip(Drop(line, eq))
       IN  AppendItem(DefineSt(Str(var), parse_atom(rhs)))
    /\ UNCHANGED Interpreter

CallLine ==
    /\ AtForm("call")
    /\ LET mcall == simple_call_re(line)
           arg_text == Strip(mcall.args)
       IN  AppendItem(CallSt(mcall.fname,
                             IF arg_text = <<>> THEN <<>> ELSE parse_arg_list(arg_text)))
    /\ UNCHANGED Interpreter

UnrecognizedLine ==
    /\ AtForm("unrecognized")
    /\ Abort("ValueError", "Unrecognized line", raw)
    /\ UNCHANGED Interpreter

\* what the caller appends once the body is parsed
Completed(hdr, body) ==
    IF hdr.kind = "func" THEN FuncItem(hdr.fname, hdr.params, body)
    ELSE IF hdr.kind = "if" THEN IfSt(Str(hdr.cond), body)
    ELSE WhileSt(Str(hdr.cond), body)

\* "end of this block", or the end of the lines, in a block that has a caller
BlockReturn ==
    /\ Parsing
    /\ AtEnd \/ Dedent
    /\ Len(parser.frames) > 1
    /\ LET n == Len(parser.frames)
       IN  parser' = [parser EXCEPT
               !.frames = [Take(@, n - 1) EXCEPT
                              ![n - 1].code = Append(@, Completed(CurFrame.hdr,
                                                                  CurFrame.code))]]
    /\ UNCHANGED Interpreter

\* translate's loop over the parsed items, from item j on
RECURSIVE Partition(_, _, _, _)
Partition(parsed, j, result, main_code) ==
    IF j > Len(parsed) THEN
        Bind(IF "IR" \in DOMAIN result THEN result ELSE Bind(result, "IR", <<>>),
             "CODE", main_code)
    ELSE IF IsTuple(parsed[j]) /\ parsed[j].op = "__IR__"
        THEN Partition(parsed, j + 1, Bind(result, "IR", parsed[j].args[1]), main_code)
    ELSE IF IsTuple(parsed[j]) /\ parsed[j].op = "__FUNC__"
        THEN Partition(parsed, j + 1,
                       Bind(result, parsed[j].args[1],
                            Fun(parsed[j].args[2], parsed[j].args[3])),
                       main_code)
    ELSE Partition(parsed, j + 1, result, Append(main_code, parsed[j]))

\* translate, once parse_block(lines, 0, 0) has returned
Translate ==
    /\ Parsing
    /\ AtEnd
    /\ Len(parser.frames) = 1
    /\ parser' = [parser EXCEPT
           !.status = "done",
           !.result = Partition(CurFrame.code, 1, [x \in {} |-> <<>>], <<>>)]
    /\ UNCHANGED Interpreter

(***************************************************************************)
(* The sources translate is applied to.                                    *)
(***************************************************************************)
MaxLines == 4       \* the generated sources have up to MaxLines lines

Ind(n) == [j \in 1..n |-> " "]
Indents == {0, 2, 4, 8}

\* "if a:" and "x = 1" at every indent, and the empty line
BlockLines ==
    {Ind(n) \o <<"if", " ", "a", ":">> : n \in Indents}
    \cup {Ind(n) \o <<"x", " ", "=", " ", "1">> : n \in Indents}
    \cup {<<>>}
BlockSources == UNION {[1..n -> BlockLines] : n \in 0..MaxLines}

\* func f(a, b):
\*     setSample(SAMPLEPOS, a)
\*
\* set IR: (8, 1, "out")
\* f(1, 2)
\* func g():
\*     x = 1.5
\* print("hello")
\* export("out")
WholeSource(withIR) ==
    <<<<"func", " ", "f", "(", "a", ",", " ", "b", ")", ":">>,
      Ind(4) \o <<"setSample", "(", "SAMPLEPOS", ",", " ", "a", ")">>,
      Ind(2)>>
    \o (IF withIR THEN <<<<"set", " ", "IR", ":", " ", "(", "8", ",", " ", "1", ",", " ",
                           "\"", "out", "\"", ")">>>>
                  ELSE <<>>)
    \o <<<<"f", "(", "1", ",", " ", "2", ")">>,
         <<"func", " ", "g", "(", ")", ":">>,
         Ind(4) \o <<"x", " ", "=", " ", "1", ".", "5">>,
         <<"print", "(", "\"", "hello", "\"", ")">>,
         <<"export", "(", "\"", "out", "\"", ")">>>>

\* if 1:
\*     func f():
\*         x = 1
\*     y = 2
NestedFuncSource ==
    <<<<"if", " ", "1", ":">>,
      Ind(4) \o <<"func", " ", "f", "(", ")", ":">>,
      Ind(8) \o <<"x", " ", "=", " ", "1">>,
      Ind(4) \o <<"y", " ", "=", " ", "2">>>>

\* readSample(<idx>) and g(1, 2), the expressions placed below
ReadSampleCall(idx) == <<"readSample", "(">> \o idx \o <<")">>
Indexes == {<<"0">>, <<"SAMPLEPOS", " ", "-", " ", "1">>, <<" ", "x", " ">>}
NestedCall == <<"g", "(", "1", ",", " ", "2", ")">>
Expressions == {ReadSampleCall(idx) : idx \in Indexes} \cup {NestedCall, <<"x">>}

\* the places an expression e can stand in
AssignmentOf(e) == <<<<"x", " ", "=", " ">> \o e>>
SetSampleOf(e) == <<<<"setSample", "(">> \o e \o <<",", " ", "3", ")">>>>
SetSampleValueOf(e) == <<<<"setSample", "(", "3", ",">> \o e \o <<")">>>>
CallOf(e) == <<<<"f", "(">> \o e \o <<",", " ", "3", ")">>>>
CallOnlyOf(e) == <<<<"f", "(">> \o e \o <<")">>>>
IfOf(e) == <<<<"if", " ">> \o e \o <<":">>, Ind(4) \o <<"y", " ", "=", " ", "2">>>>
WhileOf(e) == <<<<"while", " ">> \o e \o <<":">>, Ind(4) \o <<"y", " ", "=", " ", "2">>>>
ExpressionSources ==
    UNION {{AssignmentOf(e), SetSampleOf(e), SetSampleValueOf(e), CallOf(e),
            CallOnlyOf(e), IfOf(e), WhileOf(e)} : e \in Expressions}

\* lines that are no statement, after and before lines that are
BadLines ==
    {<<"set", " ", "IR", ":", " ", "(", "8", ",", " ", "1">>,
     <<"set", " ", "IR", ":", "8">>,
     <<"func", " ", "f", "(">>,
     <<"func", " ", "f", "(", "a", "+", "b", ")", ":">>,
     <<"func", " ", "f", "(", ")">>,
     <<"hello">>,
     <<"if", " ", "x">>,
     <<"f", "(", "1">>,
     <<"setSample", "(", "1", ")">>,
     <<"setSample", "(", ")">>,
     <<"setSample", "(", " ", ")">>}
Before == {<<>>, <<<<"x", " ", "=", " ", "1">>>>,
           <<<<"if", " ", "a", ":">>, Ind(4) \o <<"x", " ", "=", " ", "1">>>>}
After == {<<>>, <<<<"y", " ", "=", " ", "2">>>>}
BadSources ==
    {pre \o <<Ind(n) \o bad>> \o post :
        pre \in Before, n \in {0, 4}, bad \in BadLines, post \in After}

Sources ==
    BlockSources \cup ExpressionSources \cup BadSources
    \cup {WholeSource(w) : w \in BOOLEAN} \cup {NestedFuncSource}

(***************************************************************************)
(* The specifications: a run of the interpreter on a script, and a run of  *)
(* the parser on a source.                                                 *)
(***************************************************************************)
\* Baeng.__init__
Init ==
    /\ script \in {[IR |-> h, FUNS |-> p.FUNS, CODE |-> p.CODE] :
                       h \in Headers, p \in Programs}
    /\ global_vars = EmptyDict
    /\ local_variables = <<0>>
    /\ heap = (0 :> EmptyDict)
    /\ data = Zeros(script.IR[1], script.IR[2])
    /\ SAMPLEPOS = 0
    /\ stack = <<>>
    /\ status = "init"
    /\ exported = <<>>
    /\ lastCall = [fname |-> "", seen |-> <<>>, completed |-> FALSE]
    /\ parser = NoParse

Next ==
    \/ Run
    \/ IfOp
    \/ WhileOp
    \/ WhileTest
    \/ DefineOp
    \/ SetSampleOp
    \/ ReadSampleOp
    \/ ExportOp
    \/ PrintOp
    \/ CallOp
    \/ UnknownOp
    \/ KernelIterate
    \/ KernelDone
    \/ BlockEnd
    \/ EndOfRunExport

Spec == Init /\ [][Next]_vars

\* the runs of the scripts with an If or a While, in which the interpreter takes
\* its next step whenever it has one
ControlPrograms ==
    {CountProg(k) : k \in 0..MaxCount}
    \cup {FrameProg(z) : z \in BOOLEAN}
    \cup {ScopeProg(pre) : pre \in BOOLEAN}
    \cup {LocalCountProg(pre) : pre \in BOOLEAN}
    \cup {NestedProg, DefineProg, MiscProg, UnknownProg}
ControlInit ==
    /\ Init
    /\ \E p \in ControlPrograms : script.FUNS = p.FUNS /\ script.CODE = p.CODE
FairSpec == ControlInit /\ [][Next]_vars /\ WF_vars(Next)

ParserInit ==
    /\ parser \in {StartParse(src) : src \in Sources}
    /\ script = [IR |-> <<IntV(0), IntV(0), "out.wav">>, FUNS |-> NoFuns, CODE |-> <<>>]
    /\ global_vars = EmptyDict
    /\ local_variables = <<0>>
    /\ heap = (0 :> EmptyDict)
    /\ data = <<>>
    /\ SAMPLEPOS = 0
    /\ stack = <<>>
    /\ status = "idle"
    /\ exported = <<>>
    /\ lastCall = [fname |-> "", seen |-> <<>>, completed |-> FALSE]

ParserNext ==
    \/ BlankLine
    \/ IRLine
    \/ FuncLine
    \/ IfLine
    \/ WhileLine
    \/ PrintLine
    \/ ExportLine
    \/ SetSampleLine
    \/ AssignmentLine
    \/ CallLine
    \/ UnrecognizedLine
    \/ BlockReturn
    \/ Translate

ParserSpec == ParserInit /\ [][ParserNext]_vars

(***************************************************************************)
(* Notions the properties below are stated with.                           *)
(***************************************************************************)
BufferLength == Len(data)

\* <<0, 1, ..., n-1>>
Ascending(n) == [m \in 1..n |-> m - 1]

RECURSIVE HasCall(_)
HasCall(code) ==
    \E j \in 1..Len(code) :
        \/ code[j].op \notin Operators
        \/ code[j].op \in {"if", "while"} /\ HasCall(code[j].args[2])

\* the names a code block may Define, at any depth of if/while
RECURSIVE DefinedNames(_)
DefinedNames(code) ==
    UNION {IF code[j].op = "define" THEN {code[j].args[1]}
           ELSE IF code[j].op \in {"if", "while"} THEN DefinedNames(code[j].args[2])
           ELSE {} : j \in 1..Len(code)}

ZeroParamNoCall(fname) ==
    /\ fname \in DOMAIN script.FUNS
    /\ script.FUNS[fname].PARAMS = <<>>
    /\ ~HasCall(script.FUNS[fname].CODE)

\* the body execution of a kernel invocation is at its start: the frame is
\* pushed, the cursor set, no line of the body run yet
BodyStart ==
    /\ status = "running"
    /\ Len(stack) >= 2
    /\ Top.kind = "block"
    /\ Top.scope = "local"
    /\ Top.i = 1
    /\ stack[Len(stack) - 1].kind = "call"

\* the kernel loop the innermost running body belongs to
Caller == stack[Len(stack) - 1]

\* the values the arguments of that call had when the call line was reached
BoundAtCall(c) == Zip(script.FUNS[c.fname].PARAMS, ParameterValues(c.line, c.st0))

\* what an evaluation in the caller's environment reads now, during the body
CallerNow ==
    [lv |-> heap[local_variables[Len(local_variables) - 1]], gv |-> global_vars,
     pos |-> SAMPLEPOS, data |-> data]

\* equality of two numbers as real numbers
Precision(v) == IF v.k = "float32" THEN "single" ELSE "double"
RealEq(a, b) ==
    /\ IsNum(a)
    /\ IsNum(b)
    /\ a.n = b.n
    /\ a.d = b.d
    /\ (IsPow2(a.d) \/ Precision(a) = Precision(b))

(***************************************************************************)
(* C1  Kernel cardinality.  A call of a zero-parameter function whose body *)
(* holds no call runs the body once per sample: while the loop runs, the   *)
(* cursor values seen at the starts of the body executions are 0, 1, 2,    *)
(* ... in ascending order without gap or repeat and never more than the    *)
(* buffer length N; when the call line completes they are 0..N-1 exactly.  *)
(***************************************************************************)
C1_KernelCardinality ==
    /\ \A j \in 1..Len(stack) :
          (stack[j].kind = "call" /\ ZeroParamNoCall(stack[j].fname)) =>
              /\ stack[j].seen = Ascending(Len(stack[j].seen))
              /\ Len(stack[j].seen) <= BufferLength
    /\ (lastCall.completed /\ ZeroParamNoCall(lastCall.fname)) =>
          lastCall.seen = Ascending(BufferLength)

C1_Witness ==
    /\ lastCall.completed
    /\ ZeroParamNoCall(lastCall.fname)
    /\ BufferLength >= 3
    /\ Len(lastCall.seen) = BufferLength

C3_FreshFramePerPosition ==
    BodyStart => TopFrame = BoundAtCall(Caller)

(***************************************************************************)
(* C4  Scope isolation.                                                    *)
(***************************************************************************)
\* the next line is a Define inside an if or a while nested in a function body
DefineNested ==
    /\ AtLine
    /\ CurLine.op = "define"
    /\ Top.scope = "stay_local"

\* the frame that was on top when the call at stack position j was reached
CallerFrame(j) ==
    heap[local_variables[1 + Cardinality({m \in 1..(j - 1) : stack[m].kind = "call"})]]

\* while a call runs and when it completes, the caller's top frame and the
\* global store are as they were when the call line was reached: no variable
\* the function body defines is bound there, unless it already was
CallLeavesCallerAlone ==
    \A j \in 1..Len(stack) :
        stack[j].kind = "call" =>
            /\ CallerFrame(j) = stack[j].st0.lv
            /\ global_vars = stack[j].st0.gv

\* the bindings of the current frame last until the frame is popped, and only
\* a Define of a name changes its value
FrameKeepsBindings ==
    (status = "running" /\ Len(local_variables') >= Len(local_variables)) =>
        \A x \in DOMAIN TopFrame :
            /\ x \in DOMAIN heap'[TopId]
            /\ heap'[TopId][x] # TopFrame[x] =>
                  (AtLine /\ CurLine.op = "define" /\ CurLine.args[1] = x)

C5_IndexOutsideRangeRaises ==
    [][(/\ AtLine
        /\ CurLine.op \in {"setSample", "readSample"}
        /\ FetchParameter(CurLine.args[1], Cur).k = "int"
        /\ \/ FetchParameter(CurLine.args[1], Cur).n < 0
           \/ FetchParameter(CurLine.args[1], Cur).n >= BufferLength
        /\ CurLine.op = "setSample" =>
              ~IsErr(ToFloat32(FetchParameter(CurLine.args[2], Cur))))
       => (status' = "IndexError" /\ data' = data)]_vars

(***************************************************************************)
(* C6  Buffer write/read round trip.                                       *)
(***************************************************************************)
\* the script is  [fill()] setSample(i, v); r = readSample(i)  and r is bound
RoundTripDone(i, v, pre) ==
    /\ script.FUNS = IndexProg(i, v, pre).FUNS
    /\ script.CODE = IndexProg(i, v, pre).CODE
    /\ 0 <= i
    /\ i < BufferLength
    /\ "r" \in DOMAIN global_vars

\* a SetSample at a valid index i writes sample i and no other
SetSampleWritesOneSample ==
    (/\ AtLine
     /\ CurLine.op = "setSample"
     /\ FetchParameter(CurLine.args[1], Cur).k = "int"
     /\ 0 <= FetchParameter(CurLine.args[1], Cur).n
     /\ FetchParameter(CurLine.args[1], Cur).n < BufferLength
     /\ status' = "running")
    => /\ Len(data') = Len(data)
       /\ \A j \in 1..Len(data) :
             data'[j] = IF j = FetchParameter(CurLine.args[1], Cur).n + 1
                          THEN ToFloat32(FetchParameter(CurLine.args[2], Cur))
                          ELSE data[j]

(***************************************************************************)
(* C6 as claimed: for every valid index i and value v, SetSample(i, v)     *)
(* followed by ReadSample(i) returns v, and SetSample(i, v) leaves every   *)
(* other sample unchanged.                                                 *)
(***************************************************************************)
C6_ReadReturnsWritten ==
    /\ [](\A i \in (-MaxIndex)..MaxIndex, v \in Values, pre \in BOOLEAN :
            RoundTripDone(i, v, pre) => RealEq(global_vars["r"], v))
    /\ [][SetSampleWritesOneSample]_vars

(***************************************************************************)
(* C6, amended.  For every valid index i and number v, SetSample(i, v)     *)
(* followed by ReadSample(i) returns v converted to single precision: a    *)
(* float32, equal to v when v is representable in single precision and     *)
(* the nearest such number otherwise.  SetSample(i, v) leaves every other  *)
(* sample, and the length of the buffer, unchanged.                        *)
(***************************************************************************)
C6_RoundTrip ==
    /\ [](\A i \in (-MaxIndex)..MaxIndex, v \in Values, pre \in BOOLEAN :
            RoundTripDone(i, v, pre) =>
                /\ global_vars["r"] = ToFloat32(v)
                /\ IsExact(v) => RealEq(global_vars["r"], v))
    /\ [][SetSampleWritesOneSample]_vars

\* 1/3 written into a filled buffer and read back
C6_Witness ==
    /\ \E i \in 1..MaxIndex : RoundTripDone(i, FloatV(1, 3), TRUE)
    /\ global_vars["r"] = ToFloat32(FloatV(1, 3))
    /\ data[1] = ToFloat32(IntV(1))

(***************************************************************************)
(* C7  End-to-end kernel result.                                           *)
(***************************************************************************)
\* header (R, 1), f(): setSample(SAMPLEPOS, SAMPLEPOS / R), main: f(); run over
KernelRun(R) ==
    /\ script.IR = <<IntV(R), IntV(1), "out.wav">>
    /\ script.FUNS = KernelProg(R).FUNS
    /\ script.CODE = KernelProg(R).CODE
    /\ status = "done"

(***************************************************************************)
(* C7 as claimed: the run ends with buffer[i] = i/R for every i in 0..R-1. *)
(***************************************************************************)
C7_BufferIsRamp ==
    \A R \in 1..MaxRate :
        KernelRun(R) =>
            /\ BufferLength = R
            /\ \A i \in 0..(R - 1) : RealEq(data[i + 1], FloatV(i, R))

(***************************************************************************)
(* C7, amended.  The run ends with buffer[i] = i/R converted to single     *)
(* precision for every i in 0..R-1: exactly i/R where i/R is representable *)
(* in single precision (every i when R is a power of two), the nearest     *)
(* float32 otherwise.  For R = 8 the buffer is                             *)
(* [0, 0.125, 0.25, 0.375, 0.5, 0.625, 0.75, 0.875].                       *)
(***************************************************************************)
C7_EndToEnd ==
    /\ \A R \in 1..MaxRate :
          KernelRun(R) =>
              /\ BufferLength = R
              /\ \A i \in 0..(R - 1) :
                    /\ data[i + 1] = ToFloat32(FloatV(i, R))
                    /\ IsPow2(R) => RealEq(data[i + 1], FloatV(i, R))
    /\ KernelRun(8) =>
          data = <<ToFloat32(IntV(0)), ToFloat32(FloatV(1, 8)), ToFloat32(FloatV(1, 4)),
                   ToFloat32(FloatV(3, 8)), ToFloat32(FloatV(1, 2)),
                   ToFloat32(FloatV(5, 8)), ToFloat32(FloatV(3, 4)),
                   ToFloat32(FloatV(7, 8))>>

\* the run for R = 3 is over: 1/3 and 2/3 were stored
C7_Witness ==
    /\ KernelRun(3)
    /\ data[3] = ToFloat32(FloatV(2, 3))

(***************************************************************************)
(* C8  Frame push/pop balance.  One frame is pushed at the start of each   *)
(* body execution of a kernel invocation and popped at its end; no other   *)
(* step (an if or while body, a statement of top-level code) changes the   *)
(* local stack.  So the depth of the local stack is its initial depth plus *)
(* the number of function bodies being executed, and is the initial depth  *)
(* whenever control is in top-level code.                                  *)
(***************************************************************************)
InitialDepth == 1

\* a call activation below the top has one body execution above it
ActiveBodies == Cardinality({j \in 1..(Len(stack) - 1) : stack[j].kind = "call"})

InTopLevelCode == stack = <<>> \/ Top.scope = "global"

DepthIsBalanced ==
    /\ Len(local_variables) = InitialDepth + ActiveBodies
    /\ InTopLevelCode => Len(local_variables) = InitialDepth

BodyStarts == status = "running" /\ stack # <<>> /\ Top.kind = "call" /\ Top.pos < Top.limit
BodyEnds ==
    /\ status = "running"
    /\ stack # <<>>
    /\ Top.kind = "block"
    /\ Top.scope = "local"
    /\ Top.i > Len(Top.code)

PushesAndPops ==
    /\ BodyStarts => local_variables' = Append(local_variables, Top.params)
    /\ BodyEnds => local_variables' = Pop(local_variables)
    /\ ~(BodyStarts \/ BodyEnds) => local_variables' = local_variables

C8_FrameBalance == []DepthIsBalanced /\ [][PushesAndPops]_vars

\* inside an if of a function called from a function body: two bodies active
C8_Witness ==
    /\ status = "running"
    /\ stack # <<>>
    /\ Top.kind = "block"
    /\ Top.scope = "stay_local"
    /\ ActiveBodies = 2
    /\ Len(local_variables) = 3

(***************************************************************************)
(* C9  Evaluation environment.  In every state, a name evaluates to the    *)
(* cursor if it is SAMPLEPOS and to the buffer handle if it is IR, even if *)
(* a variable of that name is in the frame or the global store; otherwise  *)
(* to its value in the global store if it is bound there, also when the    *)
(* top frame binds it too (a parameter included); otherwise to its value   *)
(* in the top frame.                                                       *)
(***************************************************************************)
C9_EvaluationEnvironment ==
    \A x \in (DOMAIN TopFrame) \cup (DOMAIN global_vars) \cup {"SAMPLEPOS", "IR"} :
        EvalString(Name(x), Cur) =
            IF x = "SAMPLEPOS" THEN IntV(SAMPLEPOS)
            ELSE IF x = "IR" THEN Handle
            ELSE IF x \in DOMAIN global_vars THEN global_vars[x]
            ELSE TopFrame[x]

\* parameter a = 2 and global a = 1; a global SAMPLEPOS and a local IR exist
C9_Witness ==
    /\ status = "running"
    /\ Len(local_variables) = 2
    /\ "a" \in (DOMAIN TopFrame) \cap (DOMAIN global_vars)
    /\ TopFrame["a"] # global_vars["a"]
    /\ "SAMPLEPOS" \in DOMAIN global_vars
    /\ global_vars["SAMPLEPOS"] # IntV(SAMPLEPOS)
    /\ "IR" \in DOMAIN TopFrame
    /\ "u" \in DOMAIN TopFrame
    /\ TopFrame["u"] = global_vars["a"]

(***************************************************************************)
(* C10  Define write target per mode.  A Define that completes in Global   *)
(* mode binds the name to the value in the global store and changes no     *)
(* frame; a Define that completes in Local or StayLocal mode binds the     *)
(* name to the value in the top frame, which is the frame of a function    *)
(* body, and changes neither the global store nor any other frame.  In no  *)
(* mode does it leave the name unbound.                                    *)
(***************************************************************************)
DefineIn(scopes) ==
    /\ AtLine
    /\ CurLine.op = "define"
    /\ Top.scope \in scopes
    /\ status' = "running"

\* dict d2 is d1 with name bound to v and nothing else changed
OnlyBinds(d1, d2, name, v) ==
    /\ DOMAIN d2 = (DOMAIN d1) \cup {name}
    /\ d2[name] = v
    /\ \A y \in (DOMAIN d1) \ {name} : d2[y] = d1[y]

AtUnknownOperation ==
    /\ AtLine
    /\ CurLine.op \notin Operators
    /\ CurLine.op \notin DOMAIN script.FUNS

Aborted == status \in ErrorKinds

C11_UnknownOperationAborts ==
    [][/\ AtUnknownOperation =>
             /\ status' = "NotImplementedError"
             /\ UNCHANGED <<parser, script, global_vars, local_variables, heap, data,
                            SAMPLEPOS, stack, exported, lastCall>>
       /\ ~Aborted]_vars

\* aborted at position 1 of a kernel loop over 3 or more samples, inside an if
\* of the body, with a statement after the call line in the main sequence
C11_Witness ==
    /\ status = "NotImplementedError"
    /\ Len(stack) = 4
    /\ Top.kind = "block"
    /\ Top.code[Top.i].op \notin Operators \cup DOMAIN script.FUNS
    /\ Top.i < Len(Top.code)
    /\ stack[2].kind = "call"
    /\ stack[2].limit >= 3
    /\ stack[1].i <= Len(stack[1].code)
    /\ SAMPLEPOS = 1
    /\ data[2] = ToFloat32(IntV(1))
    /\ data[3] = ToFloat32(IntV(0))
    /\ exported = <<>>
    /\ global_vars = EmptyDict
(***************************************************************************)
(* C12 as claimed: a step that executes an Export or a Print leaves the    *)
(* buffer, the global store, the local stack and the cursor unchanged and  *)
(* the statement following it in the sequence is the next one executed.    *)
(***************************************************************************)
AtExportOrPrint == AtLine /\ CurLine.op \in {"export", "print"}

ReadOnly == UNCHANGED <<data, global_vars, local_variables, heap, SAMPLEPOS>>

FollowingIsNext ==
    /\ status' = "running"
    /\ stack' = ReplaceTop(stack, Advance(Top))

C12_ExportNeverEndsRun ==
    [][AtExportOrPrint => (ReadOnly /\ FollowingIsNext)]_vars

(***************************************************************************)
(* C12  Export and Print are read-only; Print never ends the run, Export   *)
(* does not when the header's sample rate is positive.  A step that        *)
(* executes an Export or a Print leaves the buffer, the global store, the  *)
(* local stack and the cursor unchanged; after a Print, and after an       *)
(* Export under a positive sample rate, the statement following it in the  *)
(* sequence is the next one executed, and the Export has added one file    *)
(* holding the buffer's samples, however many were written before.         *)
(***************************************************************************)
SampleRate == script.IR[1].n

C12_ExportPrintReadOnly ==
    [][AtExportOrPrint =>
          /\ ReadOnly
          /\ (CurLine.op = "print" \/ SampleRate > 0) => FollowingIsNext
          /\ (CurLine.op = "export" /\ SampleRate > 0) =>
                exported' = Append(exported, [path |-> CurLine.args[1], data |-> data])
          /\ CurLine.op = "print" => exported' = exported]_vars

\* Exports at top level and at every position of a kernel loop are done, the
\* same path twice, and the statement after them has run
C12_Witness ==
    /\ status = "running"
    /\ Len(exported) >= 4
    /\ exported[1].path = exported[2].path
    /\ exported[3].path = "c.wav"
    /\ exported[1].data = data
    /\ data # Zeros(script.IR[1], script.IR[2])
    /\ "x" \in DOMAIN global_vars
(***************************************************************************)
(* C13  Buffer shape invariant.  Before the run starts every sample is     *)
(* zero; in every state the buffer's length is floor(rate * duration) of   *)
(* the header; and a step changes the buffer only by executing a SetSample *)
(* statement (at top level or in a kernel body), which changes at most the *)
(* one sample its index resolves to and not the length.                    *)
(***************************************************************************)
HeaderLength == (script.IR[1].n * script.IR[2].n) \div script.IR[2].d

IsZero(v) == IsNum(v) /\ v.n = 0

ShapeKept ==
    /\ Len(data) = HeaderLength
    /\ status = "init" => \A j \in 1..Len(data) : IsZero(data[j])

OnlySetSampleWrites ==
    data' # data =>
        /\ AtLine
        /\ CurLine.op = "setSample"
        /\ Len(data') = Len(data)
        /\ \E j \in 1..Len(data) :
              /\ j = Resolve(Len(data), FetchParameter(CurLine.args[1], Cur))
              /\ \A m \in (1..Len(data)) \ {j} : data'[m] = data[m]

C13_BufferShape == []ShapeKept /\ [][OnlySetSampleWrites]_vars

\* header (5, 0.5): two samples, the first written at top level, the second not
C13_Witness ==
    /\ script.IR[1] = IntV(5)
    /\ script.IR[2] = FloatV(1, 2)
    /\ Len(data) = 2
    /\ ~IsZero(data[1])
    /\ IsZero(data[2])
    /\ status = "running"
(***************************************************************************)
(* Notions for the parser's block structure, in a parse that has returned. *)
(***************************************************************************)
Parsed == parser.status = "done"
LineCount == Len(parser.lines)
NonBlank == {j \in 1..LineCount : ~IsBlank(parser.lines[j])}
BlockHeaders == {j \in NonBlank : LineForm(Strip(parser.lines[j])) \in {"func", "if", "while"}}
IndentOf(j) == Indent(parser.lines[j])

\* line j was taken into the body of header line h, directly or further in
RECURSIVE InBody(_, _)
InBody(j, h) ==
    /\ parser.owner[j] > 0
    /\ parser.owner[j] = h \/ InBody(parser.owner[j], h)
Body(h) == {j \in 1..LineCount : InBody(j, h)}

\* the first non-blank line after h whose indent is below t, or the end of input
RunEnd(h, t) ==
    Min({j \in NonBlank : j > h /\ IndentOf(j) < t} \cup {LineCount + 1})
MaximalRun(h, t) == {j \in NonBlank : h < j /\ j < RunEnd(h, t)}

\* the indent a block header line stands at, and the establishing indent of
\* the block it stands in: 0 at top level, 4 more per enclosing header
HeaderIndent == [h \in BlockHeaders |-> IndentOf(h)]
RECURSIVE EstablishingIndent(_)
EstablishingIndent(h) ==
    IF parser.owner[h] = 0 THEN 0 ELSE EstablishingIndent(parser.owner[h]) + 4
EstablishingIndents == [h \in BlockHeaders |-> EstablishingIndent(h)]

\* the nearest block enclosing header h (0: the top level) that a line of indent
\* n satisfies, where base[b] + 4 is what the body of header b asks for
RECURSIVE Nearest(_, _, _)
Nearest(h, n, base) ==
    IF parser.owner[h] = 0 THEN 0
    ELSE IF n >= base[parser.owner[h]] + 4 THEN parser.owner[h]
    ELSE Nearest(parser.owner[h], n, base)

RECURSIVE CountItems(_)
CountItems(code) ==
    IF code = <<>> THEN 0
    ELSE 1 + CountItems(Tail(code))
           + (IF Head(code).op \in {"if", "while"} THEN CountItems(Head(code).args[2])
              ELSE IF Head(code).op = "__FUNC__" THEN CountItems(Head(code).args[3])
              ELSE 0)

BlockRule(base) ==
    Parsed =>
        /\ \A h \in BlockHeaders :
              /\ Body(h) = MaximalRun(h, base[h] + 4)
              /\ RunEnd(h, base[h] + 4) <= LineCount =>
                    parser.owner[RunEnd(h, base[h] + 4)] =
                        Nearest(h, IndentOf(RunEnd(h, base[h] + 4)), base)
        /\ \A j \in 1..LineCount : j \in NonBlank <=> parser.owner[j] >= 0
        /\ CountItems(parser.frames[1].code) = Cardinality(NonBlank)

(***************************************************************************)
(* C14 as claimed: the body of a block header at indent k is the maximal   *)
(* run of following non-blank lines whose indent is at least k + 4, k      *)
(* being the indent of the header line.                                    *)
(***************************************************************************)
C14_BodyByHeaderIndent == BlockRule(HeaderIndent)

(***************************************************************************)
(* C14  Parser block rule.  In every source that parses, the body of a     *)
(* block header standing in a block of establishing indent k (0 at top     *)
(* level, 4 more for each enclosing header, whatever the header line's own *)
(* indent) is exactly the maximal run of following non-blank lines whose   *)
(* indent is at least k + 4; the first non-blank line with a smaller       *)
(* indent, or the end of input, ends the body, and that line is a          *)
(* statement of the nearest enclosing block whose indent it satisfies;     *)
(* blank lines end no block and give no statement: the statements and      *)
(* headers parsed are as many as the non-blank lines.                      *)
(***************************************************************************)
C14_BlockRule == BlockRule(EstablishingIndents)

\* "  if a:", "", "    x = 1", "x = 1": a header at indent 2 at top level, a
\* blank line in its body, and the line that ends it
C14_Witness ==
    /\ Parsed
    /\ LineCount = 4
    /\ IndentOf(1) = 2
    /\ IsBlank(parser.lines[2])
    /\ IndentOf(3) = 4
    /\ parser.owner = <<0, -1, 1, 0>>

(***************************************************************************)
(* C15.  Partition of the parsed items by translate.                       *)
(***************************************************************************)
FuncLines == {j \in NonBlank : LineForm(Strip(parser.lines[j])) = "func"}
IRLines == {j \in NonBlank : LineForm(Strip(parser.lines[j])) = "IR"}
FuncTable == DOMAIN parser.result \ {"IR", "CODE"}

\* a ("__FUNC__", ...) or ("__IR__", ...) item stands in a statement sequence,
\* at any depth
RECURSIVE HasDefinitionItem(_)
HasDefinitionItem(code) ==
    \E j \in 1..Len(code) :
        \/ IsTuple(code[j])
        \/ /\ code[j].op \in {"if", "while"}
           /\ HasDefinitionItem(code[j].args[2])

StatementSequences ==
    {parser.result["CODE"]} \cup {parser.result[f].CODE : f \in FuncTable}

\* the function line j is registered under its name with its parameters
Registered(j) ==
    LET m == FuncLineMatch(Strip(parser.lines[j]))
        ps == SplitAtCommas(m.args)
        stripped == [q \in 1..Len(ps) |-> Strip(ps[q])]
    IN  /\ m.fname \in FuncTable
        /\ parser.result[m.fname].PARAMS = SelectSeq(stripped, LAMBDA q : q # <<>>)

TopLevelStatements ==
    {j \in NonBlank : parser.owner[j] = 0} \ (FuncLines \cup IRLines)

\* C15: in the output of a parse that returned, every function definition of
\* the source is registered in the function table under its name with its
\* parameter list, no function definition or IR declaration stands in a
\* statement sequence, "CODE" has one statement per remaining top-level line,
\* an IR declaration gives a header and a source without one the empty header.
C15_Partition ==
    Parsed =>
        /\ \A j \in FuncLines : Registered(j)
        /\ \A code \in StatementSequences : ~HasDefinitionItem(code)
        /\ Len(parser.result["CODE"]) = Cardinality(TopLevelStatements)
        /\ IRLines = {} <=> parser.result["IR"] = <<>>

(***************************************************************************)
(* C16.  readSample(<idx>) as an expression of a statement or condition.   *)
(***************************************************************************)
ReadSampleNode(idx) == Lst("readSample", <<Str(Strip(idx))>>)
Three == Num(IntV(3))
YIsTwo == <<DefineSt(Str(<<"y">>), Num(IntV(2)))>>
ParseFailed == parser.status \notin {"idle", "parsing", "done"}
ParsedAs(code) == Parsed /\ parser.result["CODE"] = code

\* the statement expected for each place the expression e, with node n, stands in
Emitted(e, n) ==
    /\ parser.lines = AssignmentOf(e) => ParsedAs(<<DefineSt(Str(<<"x">>), n)>>)
    /\ parser.lines = SetSampleOf(e) => ParsedAs(<<SetSampleSt(n, Three)>>)
    /\ parser.lines = SetSampleValueOf(e) => ParsedAs(<<SetSampleSt(Three, n)>>)
    /\ parser.lines = CallOf(e) => ParsedAs(<<CallSt("f", <<n, Three>>)>>)
    /\ parser.lines = CallOnlyOf(e) => ParsedAs(<<CallSt("f", <<n>>)>>)
    /\ parser.lines = IfOf(e) => ParsedAs(<<IfSt(n, YIsTwo)>>)
    /\ parser.lines = WhileOf(e) => ParsedAs(<<WhileSt(n, YIsTwo)>>)

\* C16: when translate has finished on a source whose assignment right-hand
\* side, setSample argument, call argument or if/while condition is exactly
\* readSample(<idx>), it has returned a program in which that expression is
\* the node ["readSample", <idx>].
C16_ReadSampleComposes ==
    (Parsed \/ ParseFailed) =>
        \A idx \in Indexes : Emitted(ReadSampleCall(idx), ReadSampleNode(idx))

(***************************************************************************)
(* C17.  Arguments that contain a call with commas.                        *)
(***************************************************************************)
\* the argument an expression of the sources stands for
ExpectedArg(e) ==
    IF \E idx \in Indexes : e = ReadSampleCall(idx)
        THEN ReadSampleNode(CHOOSE idx \in Indexes : e = ReadSampleCall(idx))
        ELSE Str(e)

SetSampleSplitsAtDepth0(e) ==
    parser.lines = SetSampleOf(e) => ParsedAs(<<SetSampleSt(ExpectedArg(e), Three)>>)
CallSplitsAtDepth0(e) ==
    parser.lines = CallOf(e) => ParsedAs(<<CallSt("f", <<ExpectedArg(e), Three>>)>>)

\* C17: when translate has finished on setSample(<e>, 3) or f(<e>, 3), where
\* <e> may itself be a call with commas such as g(1, 2), it has returned a
\* program whose statement has the two arguments <e> and 3.
C17_NestedCallArguments ==
    (Parsed \/ ParseFailed) =>
        \A e \in Expressions : SetSampleSplitsAtDepth0(e) /\ CallSplitsAtDepth0(e)

(***************************************************************************)
(* C18.  Failure of a parse.                                               *)
(***************************************************************************)
\* line j is a malformed IR line, a malformed function signature, a line of no
\* line form, or a setSample( ) with fewer than two arguments
Offending(j) ==
    LET l == Strip(parser.lines[j])
    IN  \/ LineForm(l) = "IR" /\ ~IRLineMatch(l).ok
        \/ LineForm(l) = "func" /\ ~FuncLineMatch(l).ok
        \/ LineForm(l) = "unrecognized"
        \/ LineForm(l) = "setSample" /\ Len(parse_arg_list(Inner(l))) < 2
OffendingLines == {j \in NonBlank : Offending(j)}
FirstOffending == CHOOSE j \in OffendingLines : \A q \in OffendingLines : j <= q

\* the parse was aborted at line j by a parse error naming it, and neither
\* that line nor any line after it was taken into a block
AbortedAt(j) ==
    /\ parser.error.kind = "ValueError"
    /\ parser.error.raw = parser.lines[j]
    /\ parser.i = j
    /\ \A q \in j..LineCount : parser.owner[q] = -1

\* C18: when translate has finished, it has returned a program if the source
\* has no offending line, and otherwise it was aborted at the first offending
\* line by a parse error naming that line, with nothing parsed after it.
C18_ParseFailure ==
    (Parsed \/ ParseFailed) =>
        IF OffendingLines = {} THEN Parsed ELSE ParseFailed /\ AbortedAt(FirstOffending)

(***************************************************************************)
(* C19.  While and If.                                                     *)
(***************************************************************************)
AtWhile == status = "running" /\ stack # <<>> /\ Top.kind = "while"
AtIf == AtLine /\ CurLine.op = "if"
Enclosing == stack[Len(stack) - 1]
BodyExecutions == Top.pos

\* every While being executed is either about to evaluate its condition or
\* running its body, and the block holding it stands at the statement after it
WhileShape ==
    status = "running" =>
        \A j \in 1..Len(stack) :
            stack[j].kind = "while" =>
                /\ j > 1
                /\ stack[j - 1].kind = "block"
                /\ stack[j - 1].i >= 2
                /\ stack[j - 1].code[stack[j - 1].i - 1] =
                       WhileSt(stack[j].cond, stack[j].code)
                /\ j < Len(stack) =>
                       /\ stack[j + 1].kind = "block"
                       /\ stack[j + 1].code = stack[j].code
                       /\ stack[j].pos >= 1

\* one evaluation of the condition in the current environment: truthy, the body
\* is started once more; falsy, the While is left for the statement after it
WhileEvaluates ==
    AtWhile =>
        LET c == FetchParameter(Top.cond, Cur)
        IN  IF IsErr(c) THEN Aborted'
            ELSE IF Truthy(c)
                THEN /\ Len(stack') = Len(stack) + 1
                     /\ stack'[Len(stack)] = Started(Top)
                     /\ stack'[Len(stack) + 1] = Block(Top.code, Top.scope)
                ELSE stack' = Pop(stack)

\* If evaluates its condition once and starts its body at most once, leaving
\* the If statement behind either way
IfEvaluates ==
    AtIf =>
        LET c == FetchParameter(CurLine.args[1], Cur)
            after == ReplaceTop(stack, Advance(Top))
        IN  IF IsErr(c) THEN Aborted'
            ELSE IF Truthy(c)
                THEN stack' = Push(after, Block(CurLine.args[2], Downgrade(Top.scope)))
                ELSE stack' = after

\* the run of i = 0; while i < k: i = i + 1
Counting(k) == script.FUNS = NoFuns /\ script.CODE = CountProg(k).CODE
Counted(k) == "i" \in DOMAIN global_vars /\ global_vars["i"] = IntV(k)
AfterLoop == status # "running" \/ (stack # <<>> /\ Top.kind = "block" /\ Top.i >= 3)
CountingLoop ==
    \A k \in 0..MaxCount :
        Counting(k) =>
            /\ AtWhile => \E n \in 0..k : BodyExecutions = n /\ Counted(n)
            /\ (status \notin {"init", "running"} \/ (status = "running" /\ AfterLoop))
                   => Counted(k)
LoopLeftAfter ==
    \A k \in 0..MaxCount :
        (Counting(k) /\ AtWhile /\ stack' = Pop(stack)) => BodyExecutions = k
Terminated == status \notin {"init", "running"}
Counts == \E k \in 0..MaxCount : Counting(k)
CountedUp == \E k \in 0..MaxCount : Counting(k) /\ Counted(k)

\* C19: a While evaluates its condition before each iteration in the current
\* environment and runs its body once per truthy evaluation (never, if the
\* first evaluation is falsy), stops at the first falsy one, and the statement
\* after it comes next; an If evaluates its condition once and runs its body at
\* most once; the top-level counting loop to k terminates with i = k after
\* exactly k executions of its body.
C19_WhileIfSemantics ==
    /\ [](WhileShape /\ CountingLoop)
    /\ [][WhileEvaluates /\ IfEvaluates /\ LoopLeftAfter]_vars
    /\ Counts ~> (Terminated /\ CountedUp)

C19_Witness ==
    /\ Counting(MaxCount)
    /\ Terminated
    /\ Counted(MaxCount)
    /\ "z" \in DOMAIN global_vars

(***************************************************************************)
(* C20.  The bound of the kernel loop.                                     *)
(***************************************************************************)
AtCall == AtLine /\ CurLine.op \notin Operators /\ CurLine.op \in DOMAIN script.FUNS
ArgumentsEvaluate ==
    \A j \in 1..Len(ParameterValues(CurLine, Cur)) : ~IsErr(ParameterValues(CurLine, Cur)[j])

\* the loop of the call line is entered, to run over the positions 0..L-1
LoopOverBuffer ==
    /\ status' = "running"
    /\ Len(stack') = Len(stack) + 1
    /\ stack'[Len(stack')].kind = "call"
    /\ stack'[Len(stack')].pos = 0
    /\ stack'[Len(stack')].limit = BufferLength

\* C20: for every header (rate, duration), the buffer has L = floor(rate *
\* duration) samples, and a Call whose arguments evaluate enters a loop over
\* the positions 0..L-1, with no error raised by the loop bound; the positions
\* seen by a completed Call are 0..L-1.
C20_LoopBoundIsBufferLength ==
    /\ [](BufferLength = HeaderLength)
    /\ [][(AtCall /\ ArgumentsEvaluate) => LoopOverBuffer]_vars
    /\ [](lastCall.completed => lastCall.seen = Ascending(BufferLength))

(***************************************************************************)
(* C21.  The cursor during a body execution.                               *)
(***************************************************************************)
Calls == {j \in 1..Len(stack) : stack[j].kind = "call"}
InnermostCall == CHOOSE j \in Calls : \A q \in Calls : q <= j
\* a statement of the body of the innermost kernel invocation is next, or one
\* of a block nested in that body
InBodyExecution ==
    /\ status = "running"
    /\ Calls # {}
    /\ InnermostCall < Len(stack)
\* the position that body execution was started for
Position == stack[InnermostCall].seen[Len(stack[InnermostCall].seen)]

\* C21: throughout the body execution of a kernel invocation at position p,
\* what a statement of that body evaluates observes the cursor equal to p,
\* also after a nested call of another function in that body has returned.
C21_CursorStable == InBodyExecution => Cur.pos = Position

(***************************************************************************)
(* C22.  Reading a name after a Define in a function.                      *)
(***************************************************************************)
Builtins == {"SAMPLEPOS", "IR"}
\* a Define of a name that is neither SAMPLEPOS nor IR is next, in a function
\* body or a block nested in one, and its value evaluates
AtLocalDefine ==
    /\ AtLine
    /\ CurLine.op = "define"
    /\ Top.scope \in {"local", "stay_local"}
    /\ CurLine.args[1] \notin Builtins
    /\ ~IsErr(FetchParameter(CurLine.args[2], Cur))
Defined == FetchParameter(CurLine.args[2], Cur)
ReadBack == FetchParameter(V(CurLine.args[1]), Cur')
InGlobals == CurLine.args[1] \in DOMAIN global_vars

LocalCounting(pre) ==
    script.FUNS = LocalCountProg(pre).FUNS /\ script.CODE = LocalCountProg(pre).CODE
\* the call of c() does not get into the body: no sample, or the loop bound
\* is no int
NoBodyExecution == BufferLength = 0 \/ status = "TypeError"

OutputPath == script.IR[3]
\* the files written to the header's output path so far
HeaderOutputs == {j \in 1..Len(exported) : exported[j].path = OutputPath}
MainCompleted == stack = <<>> /\ status # "init"
AbortedInMain == Terminated /\ stack # <<>>
\* the one file of the end-of-run export is the last one written, and holds
\* the buffer
WrittenOnceAtEnd ==
    /\ HeaderOutputs = {Len(exported)}
    /\ exported[Len(exported)] = [path |-> OutputPath, data |-> data]
\* what was written stays written
OutputsKept == \E more \in {SubSeq(exported', Len(exported) + 1, Len(exported'))} :
                   exported' = exported \o more
\* an Export statement that completes has written its file
ExportCompletes ==
    (AtLine /\ CurLine.op = "export" /\ status' = "running") =>
        exported' = Append(exported, [path |-> CurLine.args[1], data |-> data])

(***************************************************************************)
(* C23 as claimed: a run whose main sequence completed has written the     *)
(* buffer to the header's output path exactly once, as the last file; no   *)
(* such file is written before the main sequence completes, nor when the   *)
(* run aborts, and the files of completed Export statements stay.          *)
(***************************************************************************)
C23_EndOfRunExportOnce ==
    /\ []((Terminated /\ MainCompleted) => WrittenOnceAtEnd)
    /\ [](~(Terminated /\ MainCompleted) => HeaderOutputs = {})
    /\ [][OutputsKept /\ ExportCompletes]_vars

(***************************************************************************)
(* C23, amended.  Under a header whose sample rate is positive, a run      *)
(* whose main sequence completed has written the buffer to the header's    *)
(* output path exactly once, as the last file; under a sample rate of 0    *)
(* the end-of-run export fails and the run ends in wave.Error with no such *)
(* file.  No such file is written before the main sequence completes, nor  *)
(* when the run aborts in it, and the files of completed Export statements *)
(* stay.                                                                   *)
(***************************************************************************)
C23_EndOfRunExport ==
    /\ []((Terminated /\ MainCompleted /\ SampleRate > 0) =>
             status = "done" /\ WrittenOnceAtEnd)
    /\ []((Terminated /\ MainCompleted /\ SampleRate <= 0) =>
             status = "wave.Error" /\ HeaderOutputs = {})
    /\ [](~(Terminated /\ MainCompleted) => HeaderOutputs = {})
    /\ [](AbortedInMain => status \in ErrorKinds)
    /\ [][OutputsKept /\ ExportCompletes]_vars

\* the run of ExportProg is done: four Export statements and the end-of-run
\* export have written their files
C23_Witness ==
    /\ status = "done"
    /\ script.CODE = ExportProg.CODE
    /\ Len(exported) >= 4
    /\ WrittenOnceAtEnd

(***************************************************************************)
(* C24.  Binding of arguments to parameters by position.                   *)
(***************************************************************************)
ParameterNames(c) == script.FUNS[c.fname].PARAMS
ArgumentValues(c) == ParameterValues(c.line, c.st0)
Bound(c) ==
    IF Len(ParameterNames(c)) < Len(ArgumentValues(c))
        THEN Len(ParameterNames(c)) ELSE Len(ArgumentValues(c))
Distinct(names) == \A j, q \in 1..Len(names) : names[j] = names[q] => j = q

\* the frame holds the i-th argument value under the i-th parameter name, for
\* every i both exist for, and nothing else
BoundByPosition(c) ==
    /\ DOMAIN TopFrame = {ParameterNames(c)[j] : j \in 1..Bound(c)}
    /\ \A j \in 1..Bound(c) : TopFrame[ParameterNames(c)[j]] = ArgumentValues(c)[j]

\* the first body execution of a call is at its start
FirstBodyStart == BodyStart /\ Caller.pos = 1

\* a call line is next; every argument is evaluated, surplus ones too: the
\* line raises what the first failing argument raises, and with all arguments
\* evaluated it raises nothing but the TypeError of a loop bound that is no int
AllArgumentsEvaluated ==
    AtCall =>
        IF ~ArgumentsEvaluate THEN Aborted'
        ELSE \/ LoopOverBuffer
             \/ script.IR[2].k # "int" /\ status' = "TypeError"

\* C24: at the start of the first body execution of a Call the frame holds the
\* i-th argument value under the callee's i-th parameter name; surplus
\* parameters are absent from it, surplus arguments are evaluated and bound to
\* nothing, and a call with fewer or more arguments than parameters raises no
\* error of its own.
C24_PositionalBinding ==
    /\ []((FirstBodyStart /\ Distinct(ParameterNames(Caller))) => BoundByPosition(Caller))
    /\ [][AllArgumentsEvaluated]_vars

\* m(a, b) called with three arguments: the body starts with a and b bound
C24_Witness ==
    /\ FirstBodyStart
    /\ script.CODE = ArityProg(<<I(1), I(2), I(3)>>).CODE
    /\ TopFrame = [x \in {"a", "b"} |-> IF x = "a" THEN IntV(1) ELSE IntV(2)]

(***************************************************************************)
(* C25.  The frame at the bottom of the local stack.                       *)
(***************************************************************************)
BottomFrame == heap[local_variables[1]]
BaseFrameEmpty == local_variables # <<>> /\ BottomFrame = EmptyDict
\* the top frame is the one of a function being executed, above the bottom one
TopIsFunctionFrame ==
    /\ Len(local_variables) > InitialDepth
    /\ \E j \in 1..Len(stack) : stack[j].kind = "call" /\ stack[j].params = TopId
AtStayLocalDefine == AtLine /\ CurLine.op = "define" /\ Top.scope = "stay_local"
\* the Define binds the name in the top frame and leaves the global store
WritesTopFrame ==
    /\ global_vars' = global_vars
    /\ status' = "running" =>
           heap' = [heap EXCEPT ![TopId] =
                       Bind(@, CurLine.args[1], FetchParameter(CurLine.args[2], Cur))]

\* C25: in every state of a run the local stack is non-empty and its bottom
\* frame is the empty mapping; a Define in StayLocal mode finds the frame of a
\* function on top of it and writes that frame, never the global store.
C25_BaseFrame ==
    /\ []BaseFrameEmpty
    /\ [](AtStayLocalDefine => TopIsFunctionFrame)
    /\ [][AtStayLocalDefine => WritesTopFrame]_vars

\* a Define in an If inside a function has run, two frames deep
C25_Witness ==
    /\ status = "running"
    /\ Len(local_variables) = 3
    /\ stack # <<>>
    /\ Top.scope = "stay_local"
    /\ "q" \in DOMAIN TopFrame
    /\ BottomFrame = EmptyDict

====
